---- MODULE Spec2Model ----
(***************************************************************************)
(* A model of the connection core of the LIVISI Smart Home integration:    *)
(* LivisiConnection (livisi_connector.py) with its token refresh, its      *)
(* login exchange and its device catalog, as state machines.               *)
(*                                                                         *)
(* Spec         authorized requests, the token and the refresh lock        *)
(* SpecLogin    connect(): the login exchange and the config flow          *)
(* SpecCatalog  async_get_devices() and parse_messages()                   *)
(* SpecPush     the coordinator's poll cycle, its ws_loop tasks and the    *)
(*              event channel (SpecPushFair: with fair scheduling)         *)
(* SpecFrames   the read loop of consumer_handler, frame by frame          *)
(* SpecWire     the frames from the sockets to on_websocket_data           *)
(* SpecAvail    the availability of the entities                           *)
(* SpecCommand  _async_send_command and the restart button                 *)
(***************************************************************************)
EXTENDS Integers, Sequences, FiniteSets, TLC

\* ------------------------------------------------------------------------
\* Bounds of the model
\* ------------------------------------------------------------------------

\* Number of authorized requests (tasks) issued on the one connection.
NReq == 2

\* Number of times the lifetime of a stored token ends during a run.
MaxExpire == 1

\* Number of messages in the body of GET message.
MaxMsgs == 2

\* Number of ws_loop tasks that can be alive at once.
NLoops == 2

\* Number of poll cycles of the coordinator during a run.
MaxPolls == 2

\* Number of frames the hub pushes during a run.
MaxFrames == 3

\* Number of concurrent calls of _async_send_command.
NCmd == 2

\* ------------------------------------------------------------------------
\* Spec: state of LivisiConnection and of its request tasks
\* ------------------------------------------------------------------------

VARIABLES
    token,        \* self._token: 0 is None, n > 0 the n-th token of the hub
    expired,      \* the tokens whose lifetime has ended (time >= exp)
    jwt,          \* whether the hub's tokens decode to a payload with "exp"
    lock,         \* self._token_refresh_lock: 0 free, r held by request r
    waiters,      \* the lock's FIFO queue of waiting requests
    logins,       \* POST auth/token exchanges put on the wire
    loginFailed,  \* some login exchange has failed
    expiries,     \* token lifetimes ended so far
    req           \* each request task: its position and its locals

connVars == <<token, expired, jwt, lock, waiters, logins, loginFailed,
              expiries, req>>

\* SpecLogin: connect() on a new LivisiConnection, and its caller
VARIABLES
    caller,       \* "config_flow", "setup_entry" or "migrate_entry"
    havePassword, \* the password given to connect() is not None
    cpc,          \* the position of connect()
    web_session,  \* self._web_session: "none", or its connection limit
    controller,   \* self.controller: "none", "v1", "v2" or "other"
    hubReply,     \* what happened to POST auth/token
    raised,       \* the exception that left connect(), "none" when none
    outcome       \* what the caller made of it

loginVars == <<caller, havePassword, cpc, web_session, controller, hubReply,
               raised, outcome>>

\* SpecCatalog: one call of async_get_devices()
VARIABLES
    gpc,          \* the position of async_get_devices
    messages,     \* the body of GET message
    msgsets,      \* what parse_messages returned: the four sets of ids
    fetch,        \* the three fetches of the gather, by path
    stateFetch,   \* the fetch of device/{id}/state: none, sent, ok, raised
    shc_state,    \* the local shc_state: "unbound" or what it holds
    gresult       \* what async_get_devices ended with

catVars == <<gpc, messages, msgsets, fetch, stateFetch, shc_state, gresult>>

VARIABLES
    entry,                \* the config entry: where its setup or unload is
    websocket_connected,  \* coordinator.websocket_connected
    reconnect_attempts,   \* coordinator._reconnect_attempts
    recover_from_error,   \* coordinator._recover_from_error
    coordinator_devices,  \* coordinator.devices: the ids that have entities
    is_stopping,          \* hass.is_stopping
    ws_websocket,         \* LivisiWebsocket._websocket: 0 for None, else the
                          \* ws_loop task whose connect() stored its socket
    disconnecting,        \* LivisiWebsocket._disconnecting
    loop,                 \* the ws_loop tasks
    lastEnd,              \* how connect() ended, when the last step ended one
    pollResult,           \* what the last poll cycle ended with and published
    polls,                \* poll cycles so far
    lastFrame,            \* what became of the frame the last step received
    cancelled             \* the ws_loop tasks that have been cancelled

pushVars == <<entry, websocket_connected, reconnect_attempts,
              recover_from_error, coordinator_devices, is_stopping,
              ws_websocket,
              disconnecting, loop, lastEnd, pollResult, polls, lastFrame,
              cancelled>>

\* consumer_handler on one connection
VARIABLES
    fpc,                  \* the read loop: "consuming" or "ended"
    handled,              \* the frames it has read so far
    lastIn,               \* the frame the last step read
    lastOut,              \* what consumer_handler did with it
    prevOut               \* what it did with the frame before that

frameVars == <<fpc, handled, lastIn, lastOut, prevOut>>

\* The frames on the wire and the events handed to the coordinator
VARIABLES
    live,                 \* the sockets that are connected
    wire,                 \* per socket: the frames received and not yet read
    sentLog,              \* every frame the hub has sent, in order
    dispatched            \* every call of on_websocket_data, in order

wireVars == <<live, wire, sentLog, dispatched>>

\* The entities of the devices
VARIABLES
    available,            \* per device: LivisiEntity._attr_available
    recent                \* per device: the most recent reachability signal

availVars == <<available, recent>>

\* The commands sent to the hub
VARIABLES
    cmd                   \* the calls of _async_send_command

cmdVars == <<cmd>>

\* LivisiClimate.async_update_value of one entity
VARIABLES
    kpc,                  \* where the call is: the fetch it awaits
    issued,               \* the state fetches the call has sent
    fetched,              \* the locals holding what the fetches returned
    climate               \* the attributes of the entity

climVars == <<kpc, issued, fetched, climate>>

\* The events the coordinator publishes for the push events it is handed
VARIABLES
    capability_to_device, \* _capability_to_device
    catalog,              \* the list the last successful refresh returned
    lastEvent,            \* the event of the last on_websocket_data call
    bus,                  \* what that call fired on the event bus, in order
    topics                \* what it sent to the dispatcher, in order

fanVars == <<capability_to_device, catalog, lastEvent, bus, topics>>

presVars == <<climVars, fanVars>>

restVars == <<frameVars, wireVars, availVars, cmdVars, presVars>>

Req == 1..NReq

NoToken == 0

\* Responses of the hub to an authorized request: a body without
\* "errorcode", or a body with one.
RespOk == 0
TokenExpiredCode == 2007
ServiceBusyCode == 1006
ErrorCodes == {TokenExpiredCode, ServiceBusyCode}

NoResult == [kind |-> "none", code |-> 0]
ResultOk == [kind |-> "ok", code |-> 0]
ErrorCodeException(c) == [kind |-> "ErrorCodeException", code |-> c]
RaisedException(k) == [kind |-> k, code |-> 0]

InitReq ==
    [pc |-> "idle",           \* idle, lockwait, login, wait1, wait2, done
     hdr |-> NoToken,         \* the token of auth_headers
     expired_token |-> NoToken,
     phase |-> "none",        \* what called the refresh: "pro" or "2007"
     response |-> RespOk,     \* the first response's errorcode
     retry_response |-> RespOk,
     result |-> NoResult,
     sends |-> 0,             \* calls of _async_send_request for the request
     attempts |-> 0,          \* transmissions on the wire for the request
     failures |-> 0,          \* failed transmissions of the current send
     refreshes |-> 0,         \* calls of _async_refresh_token
     pro |-> FALSE,           \* the token was found expired before sending
     relogins |-> 0,          \* login exchanges after the first response
     issuedExpired |-> FALSE, \* issued while the stored token was expired
     wireExpired |-> FALSE,   \* sent with a token decoded as expired
     wireTok |-> NoToken,     \* the token of the last transmission
     refreshedTok |-> NoToken]\* the stored token when its refresh ended

\* _decode_jwt_payload and the test of _async_request on its "exp".
TokenDetectedExpired(t) == t # NoToken /\ jwt /\ t \in expired

\* The hub's view: the token does not authorize a request.
TokenRejected(t) == t = NoToken \/ t \in expired

\* What the hub may answer to a request carrying token t.
HubResponses(t) ==
    IF TokenRejected(t) THEN ErrorCodes ELSE {RespOk, ServiceBusyCode}

\* ------------------------------------------------------------------------
\* The login exchange: _async_send_request and _async_retrieve_token
\* ------------------------------------------------------------------------

\* What can happen to POST auth/token on the wire.
LoginReplies ==
    {"access_token", "errorcode2009", "errorcode2003", "errorcode2000",
     "no_token_no_code", "empty_200", "empty_500", "not_json",
     "malformed_json", "timeout", "connect_failed", "disconnected"}

\* The exception classes that matter, each with its base classes.
Bases(exc) ==
    CASE exc = "WrongCredentialException" ->
            {"WrongCredentialException", "LivisiException", "Exception"}
      [] exc = "ShcUnreachableException" ->
            {"ShcUnreachableException", "LivisiException", "Exception"}
      [] exc = "IncorrectIpAddressException" ->
            {"IncorrectIpAddressException", "LivisiException", "Exception"}
      [] exc = "LivisiException" -> {"LivisiException", "Exception"}
      [] exc = "ServerDisconnectedError" ->
            {"ServerDisconnectedError", "ClientError", "Exception"}
      [] exc = "ClientConnectorError" ->
            {"ClientConnectorError", "ClientError", "Exception"}
      [] exc = "ContentTypeError" ->
            {"ContentTypeError", "ClientResponseError", "ClientError",
             "Exception"}
      [] exc = "TimeoutError" -> {"TimeoutError", "Exception"}
      [] OTHER -> {exc, "Exception"}

IsInstance(exc, cls) == cls \in Bases(exc)

\* What the session and res.json() give _async_send_request: the decoded
\* body ("data": an object, "none": an empty body) or an exception.
WireOutcome(reply) ==
    CASE reply \in {"access_token", "errorcode2009", "errorcode2003",
                    "errorcode2000", "no_token_no_code"} ->
            [kind |-> "data", status |-> 200, exc |-> "none"]
      [] reply = "empty_200" -> [kind |-> "none", status |-> 200, exc |-> "none"]
      [] reply = "empty_500" -> [kind |-> "none", status |-> 500, exc |-> "none"]
      [] reply = "not_json" ->
            [kind |-> "raise", status |-> 200, exc |-> "ContentTypeError"]
      [] reply = "malformed_json" ->
            [kind |-> "raise", status |-> 200, exc |-> "JSONDecodeError"]
      [] reply = "timeout" ->
            [kind |-> "raise", status |-> 0, exc |-> "TimeoutError"]
      [] reply = "connect_failed" ->
            [kind |-> "raise", status |-> 0, exc |-> "ClientConnectorError"]
      [] OTHER ->
            [kind |-> "raise", status |-> 0, exc |-> "ServerDisconnectedError"]

Returns(v) == [kind |-> "return", value |-> v, exc |-> "none"]
Raises(e) == [kind |-> "raise", value |-> "none", exc |-> e]

\* _async_send_request: "data"/"none" returned, or the exception raised.
async_send_request(reply) ==
    LET w == WireOutcome(reply) IN
    IF w.kind = "raise" THEN
        IF w.exc = "ContentTypeError" THEN Raises("LivisiException")
        ELSE IF IsInstance(w.exc, "TimeoutError") THEN
            Raises("ShcUnreachableException")
        ELSE IF IsInstance(w.exc, "ClientConnectorError") THEN
            Raises("ShcUnreachableException")
        ELSE Raises(w.exc)
    ELSE IF w.kind = "none" /\ w.status # 200 THEN Raises("LivisiException")
    ELSE Returns(w.kind)

\* The body of the try statement of _async_retrieve_token: the token is
\* stored ("token"), or an exception is raised inside the try.
retrieve_token_try(reply) ==
    LET sent == async_send_request(reply) IN
    IF sent.kind = "raise" THEN sent
    ELSE IF sent.value = "none" THEN Raises("AttributeError")
    ELSE IF reply = "access_token" THEN Returns("token")
    ELSE IF reply \in {"errorcode2003", "errorcode2009"} THEN
        Raises("WrongCredentialException")
    ELSE Raises("LivisiException")

\* Whether access_data is still the empty dict of line 218 when the try
\* statement is left: it is assigned only when the send returned a dict.
access_data_empty(reply) == async_send_request(reply).kind = "raise"

\* The except clauses of _async_retrieve_token, in their order.
retrieve_token_except(exc, empty) ==
    IF IsInstance(exc, "ClientError") THEN
        IF empty THEN "IncorrectIpAddressException"
        ELSE "ShcUnreachableException"
    ELSE IF IsInstance(exc, "TimeoutError") THEN "ShcUnreachableException"
    ELSE IF IsInstance(exc, "ClientResponseError") THEN "LivisiException"
    ELSE "LivisiException"

\* _async_retrieve_token with a password set: "ok" or the exception that
\* leaves it.
async_retrieve_token(reply) ==
    LET t == retrieve_token_try(reply) IN
    IF t.kind = "return" THEN "ok"
    ELSE retrieve_token_except(t.exc, access_data_empty(reply))

\* ------------------------------------------------------------------------
\* Spec: authorized requests and the token refresh
\* ------------------------------------------------------------------------

needs_login_always(stored, expired_token) == TRUE

\* Line 290: whether the holder of the lock requests a new token.
needs_login(stored, expired_token) ==
    stored = NoToken \/ stored = expired_token

resends_after_failure_once(failures) == failures = 0

\* Whether _async_send_request transmits again after a failed transmission
\* (failures: the failed transmissions of this send so far). It does not.
resends_after_failure(failures) == FALSE

\* The bearer token of the headers a request is sent with: auth_headers is
\* built once, by async_send_authorized_request, and passed on unchanged.
bearer(q) == q.hdr

is_token_expired_code_any(errorcode) == errorcode # RespOk

\* Line 334: the errorcode that makes _async_request refresh the token.
is_token_expired_code(errorcode) == errorcode = TokenExpiredCode

retry_result_original(q, resp) ==
    IF resp = RespOk THEN ResultOk ELSE ErrorCodeException(q.response)

\* Lines 353-361: what _async_request ends with when the response to the
\* request sent again is resp.
retry_result(q, resp) ==
    IF resp = RespOk THEN ResultOk ELSE ErrorCodeException(resp)

\* The transmissions that fail at the level of the connection.
FailingReplies == {"timeout", "connect_failed", "disconnected"}

\* _async_send_request is called for the request: it is on the wire.
sent(q) ==
    [q EXCEPT !.pc = IF q.phase = "2007" THEN "wait2" ELSE "wait1",
              !.sends = @ + 1,
              !.attempts = @ + 1,
              !.failures = 0,
              !.wireTok = bearer(q),
              !.wireExpired = @ \/ TokenDetectedExpired(bearer(q))]

done(q, res) == [q EXCEPT !.pc = "done", !.result = res]

token_during_login_kept(stored) == stored

\* _async_retrieve_token, line 222: the stored token while the login
\* exchange is under way, and after it when it fails.
token_during_login(stored) == NoToken

\* _async_refresh_token past the acquisition of the lock, for the request
\* with locals q: the login exchange is started (the stored token is cleared
\* first, line 222), or the refresh is skipped, the lock released and the
\* request sent.
refresh_locked(r, q) ==
    IF needs_login(token, q.expired_token) THEN
        /\ token' = token_during_login(token)
        /\ logins' = logins + 1
        /\ lock' = r
        /\ req' = [req EXCEPT ![r] =
                     [q EXCEPT !.pc = "login",
                               !.relogins = @ + IF q.phase = "2007" THEN 1 ELSE 0]]
    ELSE
        /\ token' = token
        /\ logins' = logins
        /\ lock' = 0
        /\ req' = [req EXCEPT ![r] = sent([q EXCEPT !.refreshedTok = token])]

\* _async_refresh_token called by the request with locals q: it remembers
\* the stored token and takes the lock, at once when the lock is free and
\* nobody waits, else after waiting in the queue.
async_refresh_token(r, q) ==
    LET q1 == [q EXCEPT !.expired_token = token, !.refreshes = @ + 1] IN
    IF lock = 0 /\ waiters = <<>> THEN
        /\ refresh_locked(r, q1)
        /\ UNCHANGED waiters
    ELSE
        /\ waiters' = Append(waiters, r)
        /\ req' = [req EXCEPT ![r] = [q1 EXCEPT !.pc = "lockwait"]]
        /\ UNCHANGED <<token, logins, lock>>

\* Time passes the expiry of the stored token.
Expire ==
    /\ UNCHANGED <<loginVars, catVars, pushVars, restVars>>
    /\ token # NoToken
    /\ token \notin expired
    /\ expiries < MaxExpire
    /\ expired' = expired \cup {token}
    /\ expiries' = expiries + 1
    /\ UNCHANGED <<token, jwt, lock, waiters, logins, loginFailed, req>>

\* async_send_authorized_request and _async_request up to the first await:
\* the headers are built from the stored token, then the request is sent, or
\* the token is found expired and refreshed first. The requests are
\* numbered in the order they are issued.
Start(r) ==
    /\ UNCHANGED <<loginVars, catVars, pushVars, restVars>>
    /\ req[r].pc = "idle"
    /\ \A o \in Req : o < r => req[o].pc # "idle"
    /\ LET q == [req[r] EXCEPT !.hdr = token,
                               !.issuedExpired = token \in expired] IN
       IF TokenDetectedExpired(token) THEN
           async_refresh_token(r, [q EXCEPT !.phase = "pro", !.pro = TRUE])
       ELSE
           /\ req' = [req EXCEPT ![r] = sent(q)]
           /\ UNCHANGED <<token, logins, lock, waiters>>
    /\ UNCHANGED <<expired, jwt, loginFailed, expiries>>

\* A request waiting for the lock gets it.
LockGranted(r) ==
    /\ UNCHANGED <<loginVars, catVars, pushVars, restVars>>
    /\ lock = 0
    /\ waiters # <<>>
    /\ Head(waiters) = r
    /\ req[r].pc = "lockwait"
    /\ waiters' = Tail(waiters)
    /\ refresh_locked(r, req[r])
    /\ UNCHANGED <<expired, jwt, loginFailed, expiries>>

\* The login exchange of the request holding the lock ends: the new token
\* is stored, the lock released and the request sent; or the exchange
\* fails, the lock is released and the exception leaves the request.
LoginDone(r) ==
    /\ UNCHANGED <<loginVars, catVars, pushVars, restVars>>
    /\ req[r].pc = "login"
    /\ lock = r
    /\ \E out \in {async_retrieve_token(reply) : reply \in LoginReplies} :
         IF out = "ok" THEN
             /\ token' = logins + 1
             /\ loginFailed' = loginFailed
             /\ req' = [req EXCEPT ![r] =
                          sent([req[r] EXCEPT !.refreshedTok = logins + 1])]
         ELSE
             /\ token' = token
             /\ loginFailed' = TRUE
             /\ req' = [req EXCEPT ![r] = done(req[r], RaisedException(out))]
    /\ lock' = 0
    /\ UNCHANGED <<expired, jwt, waiters, logins, expiries>>

\* The first response arrives: returned, or an errorcode; 2007 refreshes
\* the token and sends the request again, any other errorcode is raised.
RecvResponse(r) ==
    /\ UNCHANGED <<loginVars, catVars, pushVars, restVars>>
    /\ req[r].pc = "wait1"
    /\ \E resp \in HubResponses(req[r].wireTok) :
         LET q == [req[r] EXCEPT !.response = resp] IN
         IF resp = RespOk THEN
             /\ req' = [req EXCEPT ![r] = done(q, ResultOk)]
             /\ UNCHANGED <<token, logins, lock, waiters>>
         ELSE IF is_token_expired_code(resp) THEN
             async_refresh_token(r, [q EXCEPT !.phase = "2007"])
         ELSE
             /\ req' = [req EXCEPT ![r] = done(q, ErrorCodeException(resp))]
             /\ UNCHANGED <<token, logins, lock, waiters>>
    /\ UNCHANGED <<expired, jwt, loginFailed, expiries>>

\* The response to the request sent again arrives.
RecvRetryResponse(r) ==
    /\ UNCHANGED <<loginVars, catVars, pushVars, restVars>>
    /\ req[r].pc = "wait2"
    /\ \E resp \in HubResponses(req[r].wireTok) :
         LET q == [req[r] EXCEPT !.retry_response = resp] IN
         req' = [req EXCEPT ![r] = done(q, retry_result(q, resp))]
    /\ UNCHANGED <<token, expired, jwt, lock, waiters, logins, loginFailed,
                   expiries>>

\* A transmission of the request fails (a timeout, a failed connect, the
\* hub closing the connection): the exception leaves _async_send_request, as
\* _async_send_request classifies it, and the request.
SendFails(r) ==
    /\ UNCHANGED <<loginVars, catVars, pushVars, restVars>>
    /\ req[r].pc \in {"wait1", "wait2"}
    /\ IF resends_after_failure(req[r].failures) THEN
           req' = [req EXCEPT ![r].attempts = @ + 1, ![r].failures = @ + 1]
       ELSE
           \E reply \in FailingReplies :
               req' = [req EXCEPT ![r] =
                         done([req[r] EXCEPT !.failures = @ + 1],
                              RaisedException(async_send_request(reply).exc))]
    /\ UNCHANGED <<token, expired, jwt, lock, waiters, logins, loginFailed,
                   expiries>>

\* ------------------------------------------------------------------------
\* SpecCatalog: async_get_devices() and parse_messages()
\* ------------------------------------------------------------------------

\* A string is a sequence of segments: "/device/d1" is <<"/device/", "d1">>
\* and the bare id "d1" is <<"d1">>.
DevicePrefix == "/device/"
DeviceRef(id) == <<DevicePrefix, id>>
BareId(id) == <<id>>

\* str.removeprefix: the prefix is removed when the string starts with it.
removeprefix(str, prefix) ==
    IF Len(str) > 0 /\ str[1] = prefix THEN Tail(str) ELSE str

\* str.replace(old, ""): every occurrence is removed.
replace_with_empty(str, old) == SelectSeq(str, LAMBDA seg : seg # old)

CONTROLLER_DEVICE_TYPES == {"SHC", "SHCA"}

\* The devices, capabilities and locations the hub may list.
WindowSensor == [id |-> BareId("d1"), type |-> "WDS"]
Controller == [id |-> BareId("shc"), type |-> "SHC"]
DeviceBodies ==
    {<<>>, <<WindowSensor>>, <<Controller>>, <<WindowSensor, Controller>>}

CapabilityBodies ==
    {<<>>,
     <<[id |-> "c1", device |-> DeviceRef("d1"), type |-> "WindowDoorSensor"]>>}

LocationBodies == {<<>>}

Paths == {"device", "capability", "location"}

Bodies(path) ==
    CASE path = "device" -> DeviceBodies
      [] path = "capability" -> CapabilityBodies
      [] OTHER -> LocationBodies

\* The bodies GET device/{id}/state may return, by the operational status
\* the controller reports in them; the last one has no "state" member.
ActiveStatus == "active"
StateBodies == {ActiveStatus, "shuttingdown", "no_state_member"}

\* The exceptions an authorized request of the catalog may end with.
FetchExceptions == {"ErrorCodeException", "ShcUnreachableException"}

\* The messages the hub may hold. A timestamp of "" is one the message
\* lacks: message.get("timestamp", "").
ValidTimestamp == "2024-01-01T00:00:00Z"

Message(type, devices, source, timestamp) ==
    [isstr |-> FALSE, type |-> type, devices |-> devices, source |-> source,
     timestamp |-> timestamp]

StrMessage ==
    [isstr |-> TRUE, type |-> "", devices |-> <<>>, source |-> <<>>,
     timestamp |-> ""]

MessageUniverse ==
    {Message("DeviceLowBattery", <<DeviceRef("d1")>>, <<>>, ts) :
        ts \in {ValidTimestamp, "garbage", ""}}
    \cup
    {Message("DeviceUnreachable", <<>>, DeviceRef("d1"), ValidTimestamp),
     Message("DeviceUpdateAvailable", <<DeviceRef("shc")>>, <<>>,
             ValidTimestamp),
     Message("ProductUpdated", <<>>, DeviceRef("shc"), ValidTimestamp),
     Message("ShcUpdateCompleted", <<DeviceRef("d1"), DeviceRef("shc")>>,
             <<>>, ValidTimestamp),
     Message("ConfigurationChanged", <<DeviceRef("d1")>>, <<>>,
             ValidTimestamp),
     StrMessage}

MessageBodies ==
    UNION {[1..n -> MessageUniverse] : n \in 0..MaxMsgs}

\* dateutil.parser.parse: a datetime, or ParserError for a string that
\* holds no date. It never returns None.
parse_timestamp(timestamp) ==
    IF timestamp = ValidTimestamp THEN Returns("datetime")
    ELSE Raises("ParserError")

EmptySets ==
    [low_battery_devices |-> {}, update_available_devices |-> {},
     unreachable_devices |-> {}, updated_devices |-> {}]

message_device_ids_no_fallback(message) ==
    {removeprefix(message.devices[i], DevicePrefix) :
        i \in 1..Len(message.devices)}

\* Lines 530-535: the ids a message names.
message_device_ids(message) ==
    IF Len(message.devices) = 0 THEN
        {replace_with_empty(message.source, DevicePrefix)}
    ELSE
        {removeprefix(message.devices[i], DevicePrefix) :
            i \in 1..Len(message.devices)}

\* Lines 536-547: the ids of the message are added to the set of its type.
add_message(sets, message) ==
    LET ids == message_device_ids(message) IN
    CASE message.type = "DeviceLowBattery" ->
            [sets EXCEPT !.low_battery_devices = @ \cup ids]
      [] message.type = "DeviceUpdateAvailable" ->
            [sets EXCEPT !.update_available_devices = @ \cup ids]
      [] message.type \in {"ProductUpdated", "ShcUpdateCompleted"} ->
            [sets EXCEPT !.updated_devices = @ \cup ids]
      [] message.type = "DeviceUnreachable" ->
            [sets EXCEPT !.unreachable_devices = @ \cup ids]
      [] OTHER -> sets

\* The loop of parse_messages from message i on, with the sets so far.
RECURSIVE parse_from(_, _, _)
parse_from(msgs, i, sets) ==
    IF i > Len(msgs) THEN [raised |-> "none", sets |-> sets]
    ELSE IF msgs[i].isstr THEN parse_from(msgs, i + 1, sets)
    ELSE LET msgtimestamp == parse_timestamp(msgs[i].timestamp) IN
         IF msgtimestamp.kind = "raise" THEN
             [raised |-> msgtimestamp.exc, sets |-> sets]
         ELSE IF msgtimestamp.value = "None" THEN
             parse_from(msgs, i + 1, sets)
         ELSE parse_from(msgs, i + 1, add_message(sets, msgs[i]))

parse_messages(msgs) == parse_from(msgs, 1, EmptySets)

NoFetch == [status |-> "idle", body |-> <<>>, exc |-> "none"]
NoCatalog == [kind |-> "none", exc |-> "none", devices |-> <<>>]
CatalogRaised(exc) == [kind |-> "raised", exc |-> exc, devices |-> <<>>]

\* The frames the hub may push on the event socket. A frame is text that
\* is no JSON ("not_json"), JSON that is no object ("not_object": an array,
\* a string, null) or a JSON object ("object") with its members type,
\* properties (absent, the empty object, or an object with members) and
\* source. "ConfigChanged" stands for every type the code does not name.
LIVISI_EVENT_STATE_CHANGED == "StateChanged"
LIVISI_EVENT_BUTTON_PRESSED == "ButtonPressed"
LIVISI_EVENT_MOTION_DETECTED == "MotionDetected"

EventTypes ==
    {LIVISI_EVENT_STATE_CHANGED, LIVISI_EVENT_BUTTON_PRESSED,
     LIVISI_EVENT_MOTION_DETECTED, "ConfigChanged"}

CapabilityPrefix == "/capability/"
CapabilityRef(id) == <<CapabilityPrefix, id>>

FrameSources == {BareId("c1"), DeviceRef("d1"), CapabilityRef("c1")}

PropertyBags == {"absent", "empty", "members"}

TextFrame(text) ==
    [text |-> text, type |-> "", properties |-> "absent", source |-> <<>>]

ObjectFrame(type, properties, source) ==
    [text |-> "object", type |-> type, properties |-> properties,
     source |-> source]

Frames ==
    {TextFrame("not_json"), TextFrame("not_object")} \cup
    {ObjectFrame(type, properties, source) :
        type \in EventTypes, properties \in PropertyBags,
        source \in FrameSources}

NoFrame == TextFrame("none")

\* A LivisiWebsocketEvent, with the members the handlers read.
Event(type, source, properties) ==
    [type |-> type, source |-> source, properties |-> properties]

NoEvent == Event("", <<>>, "absent")

\* What one pass of the read loop did: whether it called on_data, with
\* which event, whether on_data raised, and whether the loop goes on.
NoOut == [called |-> FALSE, event |-> NoEvent, raised |-> FALSE,
          next |-> "consuming"]

FramesParked ==
    /\ fpc = "parked"
    /\ handled = 0
    /\ lastIn = NoFrame
    /\ lastOut = NoOut
    /\ prevOut = "none"

\* The event sockets of one coordinator: one for each of the two ws_loop
\* tasks that async_setup_entry creates. A task connects its socket again
\* after its connection has ended.
Sockets == {"first", "second"}

WireParked ==
    /\ live = {}
    /\ wire = [s \in Sockets |-> <<>>]
    /\ sentLog = <<>>
    /\ dispatched = <<>>

\* The devices that have entities.
EntityDevices == {"d1", "d2", "d3"}

AvailParked ==
    /\ available = [d \in EntityDevices |-> FALSE]
    /\ recent = [d \in EntityDevices |-> FALSE]

\* The concurrent calls of _async_send_command.
Cmds == 1..NCmd

\* What _async_send_command gave its caller: a bool, or an exception.
NoCmdResult == [kind |-> "none", success |-> FALSE, exc |-> "none"]

\* last is the hub's answer to the request as it was last sent.
IdleCmd == [pc |-> "idle", type |-> "", last |-> "none",
            result |-> NoCmdResult]

CmdParked == cmd = [c \in Cmds |-> IdleCmd]

\* The locals of async_update_value before any fetch has returned.
NoneFetched ==
    [target_temperature |-> "unset", temperature |-> "unset",
     humidity |-> "unset"]

ClimParked ==
    /\ kpc = "parked"
    /\ issued = {}
    /\ fetched = NoneFetched
    /\ climate = [target_temperature |-> "None",
                  current_temperature |-> "None",
                  current_humidity |-> "None", hvac_mode |-> "heat",
                  available |-> TRUE, actuators |-> 0]

NoPushEvent == [type |-> "", source |-> "", properties |-> <<>>]

FanParked ==
    /\ capability_to_device = <<>>
    /\ catalog = <<>>
    /\ lastEvent = NoPushEvent
    /\ bus = <<>>
    /\ topics = <<>>

PresParked == ClimParked /\ FanParked

RestParked ==
    /\ FramesParked
    /\ WireParked
    /\ AvailParked
    /\ CmdParked
    /\ PresParked

\* The ws_loop tasks: a free slot is "idle". A task is ready to run from
\* the top of its loop ("ready": created, or asleep for 0.2 s), awaits the
\* close of the socket of a connected channel ("disconnecting"), awaits
\* the connection ("connecting"), reads frames ("consuming"), or has yet to
\* notice that disconnect() closed the socket it reads ("closed"). tries
\* counts its connection attempts since it was created or a frame last
\* reached on_websocket_data.
Loops == 1..NLoops

IdleLoop == [pc |-> "idle", tries |-> 0]

\* Of the connect() that the last step ended, if it ended one: how it
\* ended, how often it called on_close, whether is_connected() was true
\* when it did, and the reachability signals published on the way.
NoEnd == [ended |-> "none", closes |-> 0, reported |-> FALSE, signals |-> {}]

NoPoll == [kind |-> "none", exc |-> "none", signals |-> {}, returned |-> <<>>]

PushParked ==
    /\ entry = "parked"
    /\ websocket_connected = FALSE
    /\ reconnect_attempts = 0
    /\ recover_from_error = FALSE
    /\ coordinator_devices = {}
    /\ is_stopping = FALSE
    /\ ws_websocket = 0
    /\ disconnecting = FALSE
    /\ loop = [l \in Loops |-> IdleLoop]
    /\ lastEnd = NoEnd
    /\ pollResult = NoPoll
    /\ polls = 0
    /\ lastFrame = "none"
    /\ cancelled = {}

\* The components a specification does not run stay as they are here.
CatalogParked ==
    /\ gpc = "parked"
    /\ messages = <<>>
    /\ msgsets = EmptySets
    /\ fetch = [path \in Paths |-> NoFetch]
    /\ stateFetch = "none"
    /\ shc_state = "unbound"
    /\ gresult = NoCatalog

LoginParked ==
    /\ caller = "none"
    /\ havePassword = TRUE
    /\ cpc = "connected"
    /\ web_session = "limit1"
    /\ controller = "v1"
    /\ hubReply = "access_token"
    /\ raised = "none"
    /\ outcome = "none"

Init ==
    /\ LoginParked
    /\ CatalogParked
    /\ PushParked
    /\ RestParked
    /\ token = 1
    /\ expired = {}
    /\ jwt \in BOOLEAN
    /\ lock = 0
    /\ waiters = <<>>
    /\ logins = 0
    /\ loginFailed = FALSE
    /\ expiries = 0
    /\ req = [r \in Req |-> InitReq]

Next ==
    \/ Expire
    \/ \E r \in Req : Start(r)
    \/ \E r \in Req : LockGranted(r)
    \/ \E r \in Req : LoginDone(r)
    \/ \E r \in Req : RecvResponse(r)
    \/ \E r \in Req : RecvRetryResponse(r)
    \/ \E r \in Req : SendFails(r)

vars == <<connVars, loginVars, catVars, pushVars, restVars>>

Spec == Init /\ [][Next]_vars

\* ------------------------------------------------------------------------
\* SpecLogin: connect() and its two callers
\* ------------------------------------------------------------------------

\* The request state Spec runs stays as it is here.
RequestsParked ==
    /\ expired = {}
    /\ jwt = TRUE
    /\ lock = 0
    /\ waiters = <<>>
    /\ loginFailed = FALSE
    /\ expiries = 0
    /\ req = [r \in Req |-> InitReq]

requestVars == <<expired, jwt, lock, waiters, loginFailed, expiries, req>>

\* What GET status, an authorized request, ends with: the controllerType of
\* the body returned, a body of null, or the exception of the request.
StatusResults ==
    {"Avatar", "Classic", "other", "null", "ErrorCodeException",
     "ShcUnreachableException", "ServerDisconnectedError"}

StatusExceptions ==
    {"ErrorCodeException", "ShcUnreachableException",
     "ServerDisconnectedError"}

\* close(): the session is closed and dropped, the controller is dropped.
close ==
    /\ web_session' = "none"
    /\ controller' = "none"

\* connect() up to the first await: the session is created and
\* _async_retrieve_token clears the token, then raises for a missing
\* password or sends POST auth/token.
ConnectStart ==
    /\ cpc = "init"
    /\ token' = NoToken
    /\ IF havePassword THEN
           /\ web_session' = "limit1"
           /\ logins' = logins + 1
           /\ cpc' = "login"
           /\ UNCHANGED <<controller, raised>>
       ELSE
           /\ close
           /\ raised' = "LivisiException"
           /\ cpc' = "raised"
           /\ UNCHANGED logins
    /\ UNCHANGED <<caller, havePassword, hubReply, outcome, requestVars, catVars, pushVars, restVars>>

\* The login exchange ends: the token is stored and GET status is sent, or
\* the exception of _async_retrieve_token leaves connect() after close().
LoginReply ==
    /\ cpc = "login"
    /\ \E reply \in LoginReplies :
         /\ hubReply' = reply
         /\ IF async_retrieve_token(reply) = "ok" THEN
                /\ token' = 1
                /\ cpc' = "status"
                /\ UNCHANGED <<web_session, controller, raised>>
            ELSE
                /\ token' = token
                /\ close
                /\ raised' = async_retrieve_token(reply)
                /\ cpc' = "raised"
    /\ UNCHANGED <<caller, havePassword, outcome, logins, requestVars, catVars, pushVars, restVars>>

\* _async_get_controller ends: the controller is stored (and the session
\* replaced by one with ten connections on a V2 controller), or the
\* exception leaves connect(), which does not close anything for it.
StatusReply ==
    /\ cpc = "status"
    /\ \E res \in StatusResults :
         IF res \in StatusExceptions THEN
             /\ raised' = res
             /\ cpc' = "raised"
             /\ UNCHANGED <<web_session, controller>>
         ELSE IF res = "null" THEN
             /\ raised' = "AttributeError"
             /\ cpc' = "raised"
             /\ UNCHANGED <<web_session, controller>>
         ELSE
             /\ controller' = CASE res = "Avatar" -> "v2"
                                [] res = "Classic" -> "v1"
                                [] OTHER -> "other"
             /\ web_session' = IF res = "Avatar" THEN "limit10" ELSE web_session
             /\ cpc' = "connected"
             /\ UNCHANGED raised
    /\ UNCHANGED <<caller, havePassword, hubReply, outcome, token, logins,
                   requestVars, catVars, pushVars, restVars>>

\* async_step_user of the config flow: errors["base"] for the exception
\* that left connect(), "unhandled" for one no except clause catches.
step_user_outcome(exc, ctrl) ==
    IF exc = "none" THEN
        IF ctrl # "none" THEN "create_entry" ELSE "cannot_connect"
    ELSE IF IsInstance(exc, "WrongCredentialException") THEN "wrong_password"
    ELSE IF IsInstance(exc, "ShcUnreachableException") THEN "cannot_connect"
    ELSE IF IsInstance(exc, "IncorrectIpAddressException") THEN
        "wrong_ip_address"
    ELSE "unhandled"

\* async_setup_entry: False for wrong credentials, else ConfigEntryNotReady.
setup_entry_outcome(exc) ==
    IF exc = "none" THEN "setup_continues"
    ELSE IF IsInstance(exc, "WrongCredentialException") THEN "return_false"
    ELSE "ConfigEntryNotReady"

\* async_migrate_entry: the except clause returns False, but the finally
\* clause reads coordinator.aiolivisi, which async_setup never assigned.
migrate_entry_outcome(exc) ==
    IF exc = "none" THEN "migration_continues" ELSE "AttributeError"

Callers == {"config_flow", "setup_entry", "migrate_entry"}

\* The caller of connect() handles what connect() ended with.
CallerHandles ==
    /\ cpc \in {"raised", "connected"}
    /\ outcome = "none"
    /\ outcome' = CASE caller = "config_flow" ->
                         step_user_outcome(raised, controller)
                    [] caller = "setup_entry" -> setup_entry_outcome(raised)
                    [] OTHER -> migrate_entry_outcome(raised)
    /\ UNCHANGED <<caller, havePassword, cpc, web_session, controller,
                   hubReply, raised, token, logins, requestVars, catVars, pushVars, restVars>>

InitLogin ==
    /\ RequestsParked
    /\ CatalogParked
    /\ PushParked
    /\ RestParked
    /\ token = NoToken
    /\ logins = 0
    /\ caller \in Callers
    /\ havePassword \in BOOLEAN
    /\ cpc = "init"
    /\ web_session = "none"
    /\ controller = "none"
    /\ hubReply = "none"
    /\ raised = "none"
    /\ outcome = "none"

NextLogin ==
    \/ ConnectStart
    \/ LoginReply
    \/ StatusReply
    \/ CallerHandles

SpecLogin == InitLogin /\ [][NextLogin]_vars

\* ------------------------------------------------------------------------
\* SpecCatalog: the steps of async_get_devices()
\* ------------------------------------------------------------------------

otherThanCatalog == <<connVars, loginVars, pushVars, restVars>>

first_failure_of_two(f) ==
    IF f["device"].status = "raised" THEN f["device"].exc
    ELSE IF f["capability"].status = "raised" THEN f["capability"].exc
    ELSE "none"

\* Lines 442-448: the first of the three results, in the order device,
\* capability, location, that is an exception; "none" when none is.
first_failure(f) ==
    IF f["device"].status = "raised" THEN f["device"].exc
    ELSE IF f["capability"].status = "raised" THEN f["capability"].exc
    ELSE IF f["location"].status = "raised" THEN f["location"].exc
    ELSE "none"

\* Lines 450-453: the id of the first device of a controller type.
RECURSIVE controller_id_from(_, _)
controller_id_from(devices, i) ==
    IF i > Len(devices) THEN <<>>
    ELSE IF devices[i].type \in CONTROLLER_DEVICE_TYPES THEN devices[i].id
    ELSE controller_id_from(devices, i + 1)

controller_id(devices) == controller_id_from(devices, 1)

\* Lines 474-486: the capabilities of a device, by type.
capability_map(capabilities, device_id) ==
    {<<capabilities[i].type, capabilities[i].id>> :
        i \in {j \in 1..Len(capabilities) :
                 removeprefix(capabilities[j].device, DevicePrefix) = device_id}}

\* Lines 490-506: one device of the list returned.
assembled_device(device, capabilities, sets, state) ==
    [id |-> device.id,
     type |-> device.type,
     capabilities |-> capability_map(capabilities, device.id),
     battery_low |-> device.id \in sets.low_battery_devices,
     update_available |-> device.id \in sets.update_available_devices,
     updated |-> device.id \in sets.updated_devices,
     unreachable |-> device.id \in sets.unreachable_devices,
     state |-> IF device.type \in CONTROLLER_DEVICE_TYPES THEN state
               ELSE "none"]

\* Lines 464-510: the list is assembled and returned; reading shc_state for
\* a device of a controller type raises UnboundLocalError when the local
\* was never assigned.
assemble(state) ==
    LET devices == fetch["device"].body IN
    IF state = "unbound"
       /\ \E i \in 1..Len(devices) : devices[i].type \in CONTROLLER_DEVICE_TYPES
    THEN CatalogRaised("UnboundLocalError")
    ELSE [kind |-> "devices", exc |-> "none",
          devices |-> [i \in 1..Len(devices) |->
                         assembled_device(devices[i], fetch["capability"].body,
                                          msgsets, state)]]

awaiting_messages_parallel(f) ==
    [path \in Paths |-> [NoFetch EXCEPT !.status = "pending"]]

\* Line 426: the call awaits GET message, so the requests of the gather of
\* line 435 do not exist while it is under way.
awaiting_messages(f) == f

\* async_get_devices is called: GET message is sent.
GetDevicesStart ==
    /\ gpc = "start"
    /\ gpc' = "messages"
    /\ fetch' = awaiting_messages(fetch)
    /\ UNCHANGED <<messages, msgsets, stateFetch, shc_state, gresult,
                   otherThanCatalog>>

\* GET message ends with an exception, which leaves async_get_devices.
MessagesFail ==
    /\ gpc = "messages"
    /\ \E exc \in FetchExceptions :
         gresult' = CatalogRaised(exc)
    /\ gpc' = "raised"
    /\ UNCHANGED <<messages, msgsets, fetch, stateFetch, shc_state,
                   otherThanCatalog>>

\* GET message returns: the messages are parsed, and the three fetches of
\* the gather are sent, unless parse_messages raised.
MessagesReply ==
    /\ gpc = "messages"
    /\ \E body \in MessageBodies :
         LET parsed == parse_messages(body) IN
         /\ messages' = body
         /\ IF parsed.raised # "none" THEN
                /\ gresult' = CatalogRaised(parsed.raised)
                /\ gpc' = "raised"
                /\ UNCHANGED <<msgsets, fetch>>
            ELSE
                /\ msgsets' = parsed.sets
                /\ fetch' = [path \in Paths |-> [NoFetch EXCEPT !.status = "pending"]]
                /\ gpc' = "gather"
                /\ UNCHANGED gresult
    /\ UNCHANGED <<stateFetch, shc_state, otherThanCatalog>>

\* One of the three fetches returns its body.
FetchReply(path) ==
    /\ gpc = "gather"
    /\ fetch[path].status = "pending"
    /\ \E body \in Bodies(path) :
         fetch' = [fetch EXCEPT ![path] = [status |-> "ok", body |-> body,
                                           exc |-> "none"]]
    /\ UNCHANGED <<gpc, messages, msgsets, stateFetch, shc_state, gresult,
                   otherThanCatalog>>

\* One of the three fetches ends with an exception, which the gather keeps
\* as its result (return_exceptions=True).
FetchFails(path) ==
    /\ gpc = "gather"
    /\ fetch[path].status = "pending"
    /\ \E exc \in FetchExceptions :
         fetch' = [fetch EXCEPT ![path] = [status |-> "raised", body |-> <<>>,
                                           exc |-> exc]]
    /\ UNCHANGED <<gpc, messages, msgsets, stateFetch, shc_state, gresult,
                   otherThanCatalog>>

\* The gather is complete: the first exception among its results is
\* raised; else the state of the controller is fetched, or, with no
\* controller among the devices, the list is assembled.
GatherDone ==
    /\ gpc = "gather"
    /\ \A path \in Paths : fetch[path].status \in {"ok", "raised"}
    /\ IF first_failure(fetch) # "none" THEN
           /\ gresult' = CatalogRaised(first_failure(fetch))
           /\ gpc' = "raised"
           /\ UNCHANGED stateFetch
       ELSE IF controller_id(fetch["device"].body) # <<>> THEN
           /\ stateFetch' = "sent"
           /\ gpc' = "state"
           /\ UNCHANGED gresult
       ELSE
           /\ gresult' = assemble(shc_state)
           /\ gpc' = IF assemble(shc_state).kind = "raised" THEN "raised"
                     ELSE "done"
           /\ UNCHANGED stateFetch
    /\ UNCHANGED <<messages, msgsets, fetch, shc_state, otherThanCatalog>>

\* Lines 456-460: what the local shc_state holds once GET device/{id}/state
\* has returned body. A V1 controller wraps the state in a "state" member;
\* reading it from a body without one raises KeyError, which the except
\* clause drops, so the local keeps the whole body.
unwrapped_state(body, ctrl) ==
    IF ctrl # "v1" THEN body
    ELSE IF body = "no_state_member" THEN "whole_body"
    ELSE body

\* GET device/{id}/state returns, or ends with an exception that is logged
\* and dropped; then the list is assembled.
StateReply ==
    /\ gpc = "state"
    /\ \E res \in StateBodies \cup {"raised"} :
         LET state == IF res = "raised" THEN shc_state
                      ELSE unwrapped_state(res, controller) IN
         /\ stateFetch' = IF res = "raised" THEN "raised" ELSE "ok"
         /\ shc_state' = state
         /\ gresult' = assemble(state)
         /\ gpc' = IF assemble(state).kind = "raised" THEN "raised" ELSE "done"
    /\ UNCHANGED <<messages, msgsets, fetch, otherThanCatalog>>

InitCatalog ==
    /\ RequestsParked
    /\ PushParked
    /\ RestParked
    /\ token = 1
    /\ logins = 0
    /\ caller = "none"
    /\ havePassword = TRUE
    /\ cpc = "connected"
    /\ controller \in {"v1", "v2"}
    /\ web_session = IF controller = "v2" THEN "limit10" ELSE "limit1"
    /\ hubReply = "access_token"
    /\ raised = "none"
    /\ outcome = "none"
    /\ gpc = "start"
    /\ messages = <<>>
    /\ msgsets = EmptySets
    /\ fetch = [path \in Paths |-> NoFetch]
    /\ stateFetch = "none"
    /\ shc_state = "unbound"
    /\ gresult = NoCatalog

NextCatalog ==
    \/ GetDevicesStart
    \/ MessagesFail
    \/ MessagesReply
    \/ \E path \in Paths : FetchReply(path)
    \/ \E path \in Paths : FetchFails(path)
    \/ GatherDone
    \/ StateReply

SpecCatalog == InitCatalog /\ [][NextCatalog]_vars

\* ------------------------------------------------------------------------
\* SpecPush: the poll cycle of the coordinator, its ws_loop tasks and the
\* event channel (coordinator.py, livisi_websocket.py, __init__.py)
\* ------------------------------------------------------------------------

otherThanPush ==
    <<connVars, catVars, caller, havePassword, cpc, hubReply, raised, outcome,
      restVars>>

\* The device lists LivisiConnection.async_get_devices may return to a poll
\* cycle, and the exceptions it may raise.
PolledDevice(id, unreachable) == [id |-> id, unreachable |-> unreachable]

Catalogs == {<<PolledDevice("d1", TRUE), PolledDevice("shc", FALSE)>>}

PollExceptions == {"ShcUnreachableException"}

\* The frames the hub may push: an event with properties, a frame that is
\* not JSON, and an event whose properties are empty or absent.
FrameKinds == {"event", "not_json", "no_properties"}

\* consumer_handler, lines 77-103: the frames that are handed to on_data.
reaches_on_data(frame) == frame = "event"

stops_reconnecting_at_three(attempts) == attempts >= 3

\* ws_loop, line 233.
stops_reconnecting(attempts) == attempts >= 2

on_close_calls_on_error_only(ended) == IF ended = "failed" THEN 1 ELSE 0

\* connect(), line 60: on_close is awaited however the connection ended.
on_close_calls(ended) == 1

\* _async_update_data, lines 79-82: the signals of a failed poll cycle.
failure_signals_none(known) == {}

failure_signals(known) == {<<device_id, FALSE>> : device_id \in known}

success_signals_unreachable_only(devs, recover) ==
    {<<devs[i].id, FALSE>> : i \in {j \in 1..Len(devs) : devs[j].unreachable}}

\* coordinator.async_get_devices, lines 120-130: the signals of a
\* successful poll cycle.
success_signals(devs, recover) ==
    {<<devs[i].id, ~devs[i].unreachable>> :
        i \in {j \in 1..Len(devs) : devs[j].unreachable \/ recover}}

\* on_websocket_close, lines 180-182, and ws_loop, lines 223-238: the
\* signals published when a connection has ended. Both only log.
close_signals(known) == {}

rearms_never(connected) == FALSE

\* coordinator.async_get_devices, line 137: a successful poll cycle calls
\* ws_connect() when the coordinator is not marked connected.
rearms(connected) == ~connected

FreeLoops == {l \in Loops : loop[l].pc = "idle"}

\* ws_connect(): a ws_loop task is created, in the first free slot.
armed ==
    LET l == CHOOSE f \in FreeLoops : \A o \in FreeLoops : f <= o IN
    [loop EXCEPT ![l] = [pc |-> "ready", tries |-> 0]]

\* A poll cycle returns the devices devs. The first one is the first refresh
\* of async_setup_entry.
PollSucceeds(devs) ==
    /\ entry \in {"refreshing", "running"}
    /\ polls < MaxPolls
    /\ rearms(websocket_connected) => FreeLoops # {}
    /\ polls' = polls + 1
    /\ pollResult' = [kind |-> "devices", exc |-> "none",
                      signals |-> success_signals(devs, recover_from_error),
                      returned |-> devs]
    /\ recover_from_error' = FALSE
    /\ coordinator_devices' =
           coordinator_devices \cup {devs[i].id : i \in 1..Len(devs)}
    /\ loop' = IF rearms(websocket_connected) THEN armed ELSE loop
    /\ entry' = IF entry = "refreshing" THEN "first_ok" ELSE entry
    /\ UNCHANGED <<websocket_connected, reconnect_attempts, is_stopping,
                   ws_websocket, disconnecting, web_session,
                   controller, cancelled, otherThanPush>>
    /\ lastEnd' = NoEnd
    /\ lastFrame' = "none"

\* A poll cycle fails: async_get_devices raised exc. A failure of the first
\* refresh ends the setup of the entry.
PollFails(exc) ==
    /\ entry \in {"refreshing", "running"}
    /\ polls < MaxPolls
    /\ polls' = polls + 1
    /\ pollResult' = [kind |-> "UpdateFailed", exc |-> exc,
                      signals |-> failure_signals(coordinator_devices),
                      returned |-> <<>>]
    /\ recover_from_error' = TRUE
    /\ entry' = IF entry = "refreshing" THEN "not_ready" ELSE entry
    /\ UNCHANGED <<websocket_connected, reconnect_attempts,
                   coordinator_devices, is_stopping, ws_websocket,
                   disconnecting, loop, web_session,
                   controller, cancelled, otherThanPush>>
    /\ lastEnd' = NoEnd
    /\ lastFrame' = "none"

\* async_setup_entry after the first refresh: a ws_loop task is created
\* whether or not the refresh created one.
SetupConnects ==
    /\ entry = "first_ok"
    /\ FreeLoops # {}
    /\ loop' = armed
    /\ entry' = "running"
    /\ UNCHANGED <<websocket_connected, reconnect_attempts,
                   recover_from_error, coordinator_devices, is_stopping,
                   ws_websocket, disconnecting, pollResult, polls,
                   web_session, controller, cancelled, otherThanPush>>
    /\ lastEnd' = NoEnd
    /\ lastFrame' = "none"

\* Home Assistant begins to stop.
HassStops ==
    /\ entry = "running"
    /\ ~is_stopping
    /\ is_stopping' = TRUE
    /\ UNCHANGED <<entry, websocket_connected, reconnect_attempts,
                   recover_from_error, coordinator_devices, ws_websocket,
                   disconnecting, loop, pollResult, polls, web_session, controller, cancelled, otherThanPush>>
    /\ lastEnd' = NoEnd
    /\ lastFrame' = "none"

\* ws_loop, lines 223-241, for task l, which has made tries attempts, when
\* listen_for_events has ended: the task returns, breaks or sleeps.
AfterConnection(l, tries) ==
    /\ websocket_connected' = FALSE
    /\ IF is_stopping THEN
           /\ reconnect_attempts' = 0
           /\ loop' = [loop EXCEPT ![l] = IdleLoop]
       ELSE
           /\ reconnect_attempts' = reconnect_attempts + 1
           /\ loop' = [loop EXCEPT ![l] =
                  IF stops_reconnecting(reconnect_attempts + 1)
                  THEN IdleLoop
                  ELSE [pc |-> "ready", tries |-> tries]]

\* connect(), lines 54-60, for task l: _websocket is cleared, on_close is
\* called and connect() returns to ws_loop.
ConnectionEnds(l, how) ==
    /\ ws_websocket' = 0
    /\ lastEnd' = [ended |-> how, closes |-> on_close_calls(how),
                   reported |-> ws_websocket' # 0,
                   signals |-> close_signals(coordinator_devices)]
    /\ AfterConnection(l, loop[l].tries)

\* Task l starts or wakes up: ws_loop from line 202 to the first await of
\* listen_for_events, which raises without a session, closes the socket of
\* a channel that is connected, and else connects.
LoopConnect(l) ==
    /\ loop[l].pc = "ready"
    /\ IF web_session = "none" THEN
           /\ AfterConnection(l, loop[l].tries + 1)
           /\ UNCHANGED <<ws_websocket, disconnecting>>
       ELSE IF ws_websocket # 0 THEN
           /\ websocket_connected' = TRUE
           /\ disconnecting' = TRUE
           /\ loop' = [loop EXCEPT ![l] = [pc |-> "disconnecting",
                                           tries |-> loop[l].tries + 1],
                                   ![ws_websocket].pc = "closed"]
           /\ UNCHANGED <<ws_websocket, reconnect_attempts>>
       ELSE
           /\ websocket_connected' = TRUE
           /\ loop' = [loop EXCEPT ![l] = [pc |-> "connecting",
                                           tries |-> loop[l].tries + 1]]
           /\ UNCHANGED <<ws_websocket, disconnecting, reconnect_attempts>>
    /\ UNCHANGED <<entry, recover_from_error, coordinator_devices,
                   is_stopping, pollResult, polls, web_session, controller, cancelled, otherThanPush>>
    /\ lastEnd' = NoEnd
    /\ lastFrame' = "none"

\* disconnect(), lines 67-69, called by listen_for_events of task l: the
\* close has been awaited; then connect() of task l begins.
DisconnectDone(l) ==
    /\ loop[l].pc = "disconnecting"
    /\ ws_websocket' = 0
    /\ disconnecting' = FALSE
    /\ loop' = [loop EXCEPT ![l].pc = "connecting"]
    /\ UNCHANGED <<entry, websocket_connected, reconnect_attempts,
                   recover_from_error, coordinator_devices, is_stopping,
                   pollResult, polls, web_session,
                   controller, cancelled, otherThanPush>>
    /\ lastEnd' = NoEnd
    /\ lastFrame' = "none"

\* The connection of task l is established: lines 51-53.
ConnectEstablished(l) ==
    /\ loop[l].pc = "connecting"
    /\ ws_websocket' = l
    /\ loop' = [loop EXCEPT ![l].pc = "consuming"]
    /\ UNCHANGED <<entry, websocket_connected, reconnect_attempts,
                   recover_from_error, coordinator_devices, is_stopping,
                   disconnecting, pollResult, polls, web_session, controller, cancelled, otherThanPush>>
    /\ lastEnd' = NoEnd
    /\ lastFrame' = "none"

\* The connection of task l cannot be established: lines 55-60.
ConnectFails(l) ==
    /\ loop[l].pc = "connecting"
    /\ ConnectionEnds(l, "failed")
    /\ UNCHANGED <<entry, recover_from_error, coordinator_devices,
                   is_stopping, disconnecting, pollResult, polls, web_session, controller, cancelled, otherThanPush>>
    /\ lastFrame' = "none"

\* The hub pushes a frame on the socket of task l: consumer_handler, and
\* on_websocket_data for the frames that reach it.
Frame(l, frame) ==
    /\ loop[l].pc = "consuming"
    /\ lastFrame' = IF reaches_on_data(frame) THEN "forwarded" ELSE "dropped"
    /\ IF reaches_on_data(frame) THEN
           /\ reconnect_attempts' = 0
           /\ loop' = [k \in Loops |-> [loop[k] EXCEPT !.tries = 0]]
       ELSE UNCHANGED <<reconnect_attempts, loop>>
    /\ UNCHANGED <<entry, websocket_connected, recover_from_error,
                   coordinator_devices, is_stopping, ws_websocket,
                   disconnecting, pollResult, polls, web_session,
                   controller, cancelled, otherThanPush>>
    /\ lastEnd' = NoEnd

\* The connection of task l ends: the hub closed it, reading from it
\* failed, or disconnect() closed it. consumer_handler returns either way.
ConsumerEnds(l, how) ==
    /\ \/ loop[l].pc = "consuming" /\ how \in {"server_closed", "read_error"}
       \/ loop[l].pc = "closed" /\ how = "disconnected"
    /\ ConnectionEnds(l, how)
    /\ UNCHANGED <<entry, recover_from_error, coordinator_devices,
                   is_stopping, disconnecting, pollResult, polls, web_session, controller, cancelled, otherThanPush>>
    /\ lastFrame' = "none"

\* async_unload_entry, of an entry Home Assistant unloads while it runs:
\* LivisiConnection.close() up to the await of disconnect(), which closes
\* the socket of a channel that is connected.
Unload ==
    /\ entry = "running"
    /\ ~is_stopping
    /\ close
    /\ IF ws_websocket # 0 THEN
           /\ disconnecting' = TRUE
           /\ loop' = [loop EXCEPT ![ws_websocket].pc = "closed"]
           /\ entry' = "unloading"
       ELSE
           /\ entry' = "unloaded"
           /\ UNCHANGED <<disconnecting, loop>>
    /\ UNCHANGED <<websocket_connected, reconnect_attempts,
                   recover_from_error, coordinator_devices, is_stopping,
                   ws_websocket, pollResult, polls, cancelled, otherThanPush>>
    /\ lastEnd' = NoEnd
    /\ lastFrame' = "none"

\* disconnect(), lines 67-69, called by close(): the close has been awaited.
UnloadDone ==
    /\ entry = "unloading"
    /\ ws_websocket' = 0
    /\ disconnecting' = FALSE
    /\ entry' = "unloaded"
    /\ UNCHANGED <<websocket_connected, reconnect_attempts,
                   recover_from_error, coordinator_devices, is_stopping,
                   loop, pollResult, polls, web_session,
                   controller, cancelled, otherThanPush>>
    /\ lastEnd' = NoEnd
    /\ lastFrame' = "none"

\* Home Assistant cancels task l, a background task of the entry, once
\* async_unload_entry has returned. CancelledError is raised at the await
\* the task is at. The sleep of line 241 is outside the try statement: the
\* task ends. During disconnect() or the connect of line 48 it reaches
\* line 216 of ws_loop, where self.aiolivisi.websocket raises
\* AttributeError: the task ends, with websocket_connected left as it is.
\* At line 74 consumer_handler catches it (line 105) and returns: connect()
\* and ws_loop go on as after any end of the connection.
TaskCancelled(l) ==
    /\ entry = "unloaded"
    /\ l \notin cancelled
    /\ loop[l].pc # "idle"
    /\ cancelled' = cancelled \cup {l}
    /\ IF loop[l].pc \in {"consuming", "closed"} THEN
           ConnectionEnds(l, "cancelled")
       ELSE
           /\ loop' = [loop EXCEPT ![l] = IdleLoop]
           /\ lastEnd' = NoEnd
           /\ UNCHANGED <<websocket_connected, reconnect_attempts,
                          ws_websocket>>
    /\ UNCHANGED <<entry, recover_from_error, coordinator_devices,
                   is_stopping, disconnecting, pollResult, polls,
                   web_session, controller, otherThanPush>>
    /\ lastFrame' = "none"

InitPush ==
    /\ RequestsParked
    /\ CatalogParked
    /\ LoginParked
    /\ token = 1
    /\ logins = 0
    /\ entry = "refreshing"
    /\ websocket_connected = FALSE
    /\ reconnect_attempts = 0
    /\ recover_from_error = FALSE
    /\ coordinator_devices = {}
    /\ is_stopping = FALSE
    /\ ws_websocket = 0
    /\ disconnecting = FALSE
    /\ loop = [l \in Loops |-> IdleLoop]
    /\ lastEnd = NoEnd
    /\ pollResult = NoPoll
    /\ polls = 0
    /\ lastFrame = "none"
    /\ cancelled = {}
    /\ RestParked

NextPush ==
    \/ \E devs \in Catalogs : PollSucceeds(devs)
    \/ \E exc \in PollExceptions : PollFails(exc)
    \/ SetupConnects
    \/ HassStops
    \/ \E l \in Loops : LoopConnect(l)
    \/ \E l \in Loops : DisconnectDone(l)
    \/ \E l \in Loops : ConnectEstablished(l)
    \/ \E l \in Loops : ConnectFails(l)
    \/ \E l \in Loops, frame \in FrameKinds : Frame(l, frame)
    \/ \E l \in Loops, how \in {"server_closed", "read_error", "disconnected"} :
         ConsumerEnds(l, how)
    \/ Unload
    \/ UnloadDone
    \/ \E l \in Loops : TaskCancelled(l)

SpecPush == InitPush /\ [][NextPush]_vars

\* The tasks the event loop has made ready do run.
SpecPushFair ==
    SpecPush /\ \A l \in Loops : WF_vars(LoopConnect(l))

\* ------------------------------------------------------------------------
\* SpecFrames: the read loop of consumer_handler on one connection
\* (livisi_websocket.py, livisi_json_util.py)
\* ------------------------------------------------------------------------

otherThanFrames ==
    <<connVars, loginVars, catVars, pushVars, wireVars, availVars, cmdVars,
      presVars>>

\* parse_dataclass, lines 10-23: json.loads raises JSONDecodeError for text
\* that is no JSON; the items() of line 19 raises AttributeError for JSON
\* that is no object; an object gives the event with its members.
parse_dataclass(frame) ==
    CASE frame.text = "not_json" -> Raises("JSONDecodeError")
      [] frame.text = "not_object" -> Raises("AttributeError")
      [] OTHER -> Returns(Event(frame.type, frame.source, frame.properties))

skipped_absent_only(properties) == properties = "absent"

\* consumer_handler, line 83: the events that are skipped.
skipped(properties) == properties = "absent" \/ properties = "empty"

bare_source_device_only(source) == removeprefix(source, DevicePrefix)

\* consumer_handler, lines 97-98.
bare_source(source) ==
    removeprefix(removeprefix(source, DevicePrefix), CapabilityPrefix)

after_on_data_uncaught(failed) == IF failed THEN "ended" ELSE "consuming"

\* consumer_handler, lines 100-103: an exception of on_data is logged and
\* the loop goes on.
after_on_data(failed) == "consuming"

\* One pass of the loop of consumer_handler, lines 74-108, for the frame
\* the socket yields; raises says whether on_data raises for its event.
consumer_step(frame, raises) ==
    LET parsed == parse_dataclass(frame) IN
    IF parsed.kind = "raise" THEN
        [NoOut EXCEPT !.next = IF parsed.exc = "JSONDecodeError"
                                THEN "consuming" ELSE "ended"]
    ELSE IF skipped(parsed.value.properties) THEN NoOut
    ELSE [called |-> TRUE,
          event |-> [parsed.value EXCEPT
                        !.source = bare_source(parsed.value.source)],
          raised |-> raises,
          next |-> after_on_data(raises)]

\* What became of a frame, in a word.
OutTag(out) ==
    IF out.called THEN (IF out.raised THEN "raised" ELSE "passed")
    ELSE IF out.next = "ended" THEN "ended" ELSE "dropped"

\* The socket yields a frame and the body of the loop runs for it.
Receive(frame, raises) ==
    /\ fpc = "consuming"
    /\ handled < MaxFrames
    /\ handled' = handled + 1
    /\ lastIn' = frame
    /\ lastOut' = consumer_step(frame, raises)
    /\ prevOut' = IF handled = 0 THEN "none" ELSE OutTag(lastOut)
    /\ fpc' = lastOut'.next
    /\ UNCHANGED otherThanFrames

\* The connection is logged in and at rest, and nothing else runs.
ConnectionParked ==
    /\ RequestsParked
    /\ CatalogParked
    /\ LoginParked
    /\ token = 1
    /\ logins = 0

\* The connection has just been established: line 53.
InitFrames ==
    /\ ConnectionParked
    /\ PushParked
    /\ WireParked
    /\ AvailParked
    /\ CmdParked
    /\ PresParked
    /\ fpc = "consuming"
    /\ handled = 0
    /\ lastIn = NoFrame
    /\ lastOut = NoOut
    /\ prevOut = "none"

NextFrames ==
    \E frame \in Frames, raises \in BOOLEAN : Receive(frame, raises)

SpecFrames == InitFrames /\ [][NextFrames]_vars

\* ------------------------------------------------------------------------
\* Claims on SpecFrames
\* ------------------------------------------------------------------------

\* The frame is a state-changed event whose properties are empty or absent.
EmptyStateChanged(frame) ==
    /\ frame.text = "object"
    /\ frame.type = LIVISI_EVENT_STATE_CHANGED
    /\ frame.properties \in {"absent", "empty"}

\* C21: a frame of type StateChanged whose properties are empty or absent is
\* not passed to on_data, and the read loop goes on to the next frame of
\* the connection.
C21_EmptyStateChangedDropped ==
    EmptyStateChanged(lastIn) => ~lastOut.called /\ fpc = "consuming"

\* A state-changed event with the empty object as properties has been
\* read right after a frame that was dropped: the loop went on.
C21_Witness ==
    /\ EmptyStateChanged(lastIn)
    /\ lastIn.properties = "empty"
    /\ prevOut = "dropped"

\* C22: every decoded frame that is not a state-changed event with empty or
\* absent properties is passed to on_data, whatever its type.
C22_EverythingElseForwarded ==
    (lastIn.text = "object" /\ ~EmptyStateChanged(lastIn)) => lastOut.called

\* C23: a frame that cannot be decoded into an event is dropped without a
\* call of on_data and the connection goes on.
C23_UndecodableDropped ==
    lastIn.text \in {"not_json", "not_object"} =>
        ~lastOut.called /\ fpc = "consuming"

\* C24: when on_data raises for a frame the read loop goes on, and the
\* frames after it are offered to on_data as any other frame is.
C24_CallbackErrorSurvived ==
    /\ (lastOut.called /\ lastOut.raised) => fpc = "consuming"
    /\ (prevOut = "raised" /\ lastIn.text = "object"
            /\ ~skipped(lastIn.properties)) => lastOut.called

\* on_data raised for a frame, and the frame after it was passed to on_data.
C24_Witness ==
    /\ prevOut = "raised"
    /\ lastOut.called
    /\ fpc = "consuming"

\* C25: the source of an event passed to on_data is the source of its frame
\* without a leading "/device/" or "/capability/", and the very source of
\* the frame when it has no such prefix.
C25_BareSource ==
    lastOut.called =>
        /\ lastOut.event.source \notin {DeviceRef("d1"), CapabilityRef("c1")}
        /\ lastIn.source \in {DeviceRef("d1"), CapabilityRef("c1")} =>
               lastOut.event.source = Tail(lastIn.source)
        /\ lastIn.source = BareId("c1") => lastOut.event.source = BareId("c1")

\* An event whose frame named "/capability/c1" has been passed to on_data.
C25_Witness ==
    /\ lastOut.called
    /\ lastIn.source = CapabilityRef("c1")


\* ------------------------------------------------------------------------
\* SpecWire: the frames of the hub from the sockets to on_websocket_data
\* (livisi_websocket.py, coordinator.py ws_loop)
\* ------------------------------------------------------------------------

otherThanWire ==
    <<connVars, loginVars, catVars, pushVars, frameVars, availVars, cmdVars,
      presVars>>

\* The frames the hub sends here: two events with properties, text that is
\* no JSON, and JSON that is no object.
WireFrames ==
    {ObjectFrame(LIVISI_EVENT_STATE_CHANGED, "members", DeviceRef("d1")),
     ObjectFrame(LIVISI_EVENT_BUTTON_PRESSED, "members", CapabilityRef("c1")),
     TextFrame("not_json"),
     TextFrame("not_object")}

next_frame_newest(buffer) == Len(buffer)

\* `async for message in websocket`, line 74: the place in the buffer of
\* the frame that is read next, the oldest.
next_frame(buffer) == 1

\* The buffer without the frame at place i.
without(buffer, i) ==
    [k \in 1..(Len(buffer) - 1) |-> IF k < i THEN buffer[k] ELSE buffer[k + 1]]

\* ws_loop, lines 201-213, and connect(), lines 48-53: a task whose
\* connection has ended, and whose read loop has returned, connects again.
WireConnect(s) ==
    /\ s \notin live
    /\ wire[s] = <<>>
    /\ live' = live \cup {s}
    /\ UNCHANGED <<wire, sentLog, dispatched, otherThanWire>>

\* The hub sends a frame on a socket; it is the next of sentLog.
HubSends(s, frame) ==
    /\ s \in live
    /\ Len(sentLog) < MaxFrames
    /\ sentLog' = Append(sentLog, [socket |-> s, frame |-> frame])
    /\ wire' = [wire EXCEPT ![s] = Append(@, Len(sentLog) + 1)]
    /\ UNCHANGED <<live, dispatched, otherThanWire>>

\* One pass of the read loop on socket s: a frame is taken from its buffer
\* and on_websocket_data is called for it if consumer_handler passes it on.
\* When the loop ends on it, the socket is closed with what it still holds.
WireRead(s, raises) ==
    /\ wire[s] # <<>>
    /\ LET i == next_frame(wire[s])
           serial == wire[s][i]
           out == consumer_step(sentLog[serial].frame, raises)
       IN
       /\ dispatched' =
              IF out.called
              THEN Append(dispatched, [serial |-> serial, event |-> out.event])
              ELSE dispatched
       /\ IF out.next = "ended" THEN
              /\ wire' = [wire EXCEPT ![s] = <<>>]
              /\ live' = live \ {s}
          ELSE
              /\ wire' = [wire EXCEPT ![s] = without(@, i)]
              /\ live' = live
    /\ UNCHANGED <<sentLog, otherThanWire>>

\* The connection of socket s ends: the hub or disconnect() closes it. The
\* read loop returns once it has read what the socket had received.
WireCloses(s) ==
    /\ s \in live
    /\ live' = live \ {s}
    /\ UNCHANGED <<wire, sentLog, dispatched, otherThanWire>>

InitWire ==
    /\ ConnectionParked
    /\ PushParked
    /\ FramesParked
    /\ AvailParked
    /\ CmdParked
    /\ PresParked
    /\ live = {}
    /\ wire = [s \in Sockets |-> <<>>]
    /\ sentLog = <<>>
    /\ dispatched = <<>>

NextWire ==
    \/ \E s \in Sockets : WireConnect(s)
    \/ \E s \in Sockets, frame \in WireFrames : HubSends(s, frame)
    \/ \E s \in Sockets, raises \in BOOLEAN : WireRead(s, raises)
    \/ \E s \in Sockets : WireCloses(s)

SpecWire == InitWire /\ [][NextWire]_vars

\* ------------------------------------------------------------------------
\* Claims on SpecWire
\* ------------------------------------------------------------------------

\* The socket on which the hub sent the frame of a call of on_websocket_data.
SocketOf(call) == sentLog[call.serial].socket

otherThanAvail ==
    <<connVars, loginVars, catVars, frameVars, wireVars, cmdVars, presVars,
      entry, websocket_connected, reconnect_attempts, coordinator_devices,
      is_stopping, ws_websocket, disconnecting, loop, lastEnd, lastFrame,
      cancelled>>

\* The device lists a poll cycle may return for the devices with entities.
AvailCatalogs ==
    {<<PolledDevice("d1", u1), PolledDevice("d2", u2), PolledDevice("d3", u3)>> :
        u1, u2, u3 \in BOOLEAN}

\* The unreachable member of device d in the list devs.
unreachable_in(devs, d) ==
    LET i == CHOOSE k \in 1..Len(devs) : devs[k].id = d IN devs[i].unreachable

\* LivisiEntity.update_reachability, lines 105-121: _attr_available after
\* the signal is_reachable.
update_reachability(attr_available, is_reachable) ==
    IF is_reachable /\ ~attr_available THEN TRUE
    ELSE IF ~is_reachable /\ attr_available THEN FALSE
    ELSE attr_available

\* The entities after the dispatcher has delivered the signals, each to the
\* entities of its device.
delivered(avail, signals) ==
    [d \in EntityDevices |->
        IF <<d, TRUE>> \in signals THEN update_reachability(avail[d], TRUE)
        ELSE IF <<d, FALSE>> \in signals
             THEN update_reachability(avail[d], FALSE)
        ELSE avail[d]]

\* A poll cycle returns devs: coordinator.async_get_devices, lines 120-134.
AvailPollSucceeds(devs) ==
    /\ polls < MaxPolls
    /\ polls' = polls + 1
    /\ pollResult' = [kind |-> "devices", exc |-> "none",
                      signals |-> success_signals(devs, recover_from_error),
                      returned |-> devs]
    /\ available' = delivered(available, pollResult'.signals)
    /\ recent' = [d \in EntityDevices |-> ~unreachable_in(devs, d)]
    /\ recover_from_error' = FALSE
    /\ UNCHANGED otherThanAvail

\* A poll cycle fails: _async_update_data, lines 76-84. The failure counts
\* as the signal "unreachable" for every device.
AvailPollFails(exc) ==
    /\ polls < MaxPolls
    /\ polls' = polls + 1
    /\ pollResult' = [kind |-> "UpdateFailed", exc |-> exc,
                      signals |-> failure_signals(coordinator_devices),
                      returned |-> <<>>]
    /\ available' = delivered(available, pollResult'.signals)
    /\ recent' = [d \in EntityDevices |-> FALSE]
    /\ recover_from_error' = TRUE
    /\ UNCHANGED otherThanAvail

\* A state-changed event of device d with the property isReachable reaches
\* on_websocket_data: lines 170-176.
PushReachable(d, is_reachable) ==
    /\ available' = delivered(available, {<<d, is_reachable>>})
    /\ recent' = [recent EXCEPT ![d] = is_reachable]
    /\ UNCHANGED <<recover_from_error, polls, pollResult, otherThanAvail>>

\* The entities have been created from the list of the first refresh, each
\* with _attr_available = not device.unreachable (entity.py, line 72).
InitAvail ==
    /\ ConnectionParked
    /\ FramesParked
    /\ WireParked
    /\ CmdParked
    /\ PresParked
    /\ entry = "running"
    /\ websocket_connected = TRUE
    /\ reconnect_attempts = 0
    /\ recover_from_error = FALSE
    /\ coordinator_devices = EntityDevices
    /\ is_stopping = FALSE
    /\ ws_websocket = 0
    /\ disconnecting = FALSE
    /\ loop = [l \in Loops |-> IdleLoop]
    /\ lastEnd = NoEnd
    /\ lastFrame = "none"
    /\ cancelled = {}
    /\ polls = 0
    /\ \E devs \in AvailCatalogs :
         /\ pollResult = [kind |-> "devices", exc |-> "none",
                          signals |-> success_signals(devs, FALSE),
                          returned |-> devs]
         /\ available = [d \in EntityDevices |-> ~unreachable_in(devs, d)]
         /\ recent = [d \in EntityDevices |-> ~unreachable_in(devs, d)]

NextAvail ==
    \/ \E devs \in AvailCatalogs : AvailPollSucceeds(devs)
    \/ \E exc \in PollExceptions : AvailPollFails(exc)
    \/ \E d \in EntityDevices, is_reachable \in BOOLEAN :
         PushReachable(d, is_reachable)

SpecAvail == InitAvail /\ [][NextAvail]_vars

\* ------------------------------------------------------------------------
\* Claims on SpecAvail
\* ------------------------------------------------------------------------

\* C28: the availability of every device is its most recent reachability
\* signal, whether that came from a poll cycle or from an isReachable
\* event.
C28_MostRecentWins ==
    \A d \in EntityDevices : available[d] = recent[d]

\* ------------------------------------------------------------------------
\* SpecCommand: _async_send_command and the restart button
\* (livisi_connector.py, button.py)
\* ------------------------------------------------------------------------

otherThanCommand ==
    <<connVars, loginVars, catVars, pushVars, frameVars, wireVars, availVars,
      presVars>>

COMMAND_RESTART == "Restart"

CommandTypes == {COMMAND_RESTART, "SetState", "StopRamp"}

\* The hub's answers to POST action: a body with resultCode Success or
\* another resultCode, an empty body, an errorcode (2007 or another), no
\* answer in time, or the connection dropped without an answer.
CommandReplies ==
    {"result_success", "result_failure", "empty_200", "errorcode2007",
     "errorcode2000", "timeout", "disconnected"}

CmdReturns(b) == [kind |-> "return", success |-> b, exc |-> "none"]
CmdRaises(e) == [kind |-> "raise", success |-> FALSE, exc |-> e]

\* _async_request, lines 329-372, for the answer that ends the request: the
\* body returned ("result_success", "result_failure", "none") or the
\* exception raised.
request_result(reply) ==
    CASE reply \in {"result_success", "result_failure"} -> Returns(reply)
      [] reply \in {"errorcode2007", "errorcode2000"} ->
            Raises("ErrorCodeException")
      [] OTHER -> async_send_request(reply)

disconnect_means_success_always(command_type) == TRUE

\* _async_send_command, line 635.
disconnect_means_success(command_type) == command_type = COMMAND_RESTART

\* _async_send_command, lines 625-637.
send_command(command_type, reply) ==
    LET response == request_result(reply) IN
    IF response.kind = "raise" THEN
        IF IsInstance(response.exc, "ServerDisconnectedError")
           /\ disconnect_means_success(command_type)
        THEN CmdReturns(TRUE)
        ELSE CmdRaises(response.exc)
    ELSE IF response.value = "none" THEN CmdReturns(FALSE)
    ELSE CmdReturns(response.value = "result_success")

\* LivisiButton.async_press, lines 87-102, on the result of its command.
async_press(result) ==
    IF result.kind = "return" /\ ~result.success
    THEN CmdRaises("HomeAssistantError")
    ELSE result

\* A command is sent: the request of _async_send_command is on the wire.
CommandStart(c, command_type) ==
    /\ cmd[c].pc = "idle"
    /\ cmd' = [cmd EXCEPT ![c] = [IdleCmd EXCEPT !.pc = "sent",
                                                !.type = command_type]]
    /\ UNCHANGED otherThanCommand

\* The hub answers the request with errorcode 2007: _async_request
\* refreshes the token and sends the request once more (lines 334-345).
CommandResent(c) ==
    /\ cmd[c].pc = "sent"
    /\ cmd' = [cmd EXCEPT ![c].pc = "resent", ![c].last = "errorcode2007"]
    /\ UNCHANGED otherThanCommand

\* The request of the command ends with reply, and _async_send_command
\* returns or raises.
CommandDone(c, reply) ==
    /\ cmd[c].pc \in {"sent", "resent"}
    /\ cmd[c].pc = "sent" => reply # "errorcode2007"
    /\ cmd' = [cmd EXCEPT ![c].pc = "done", ![c].last = reply,
                          ![c].result = send_command(cmd[c].type, reply)]
    /\ UNCHANGED otherThanCommand

InitCommand ==
    /\ ConnectionParked
    /\ PushParked
    /\ FramesParked
    /\ WireParked
    /\ AvailParked
    /\ PresParked
    /\ cmd = [c \in Cmds |-> IdleCmd]

NextCommand ==
    \/ \E c \in Cmds, command_type \in CommandTypes :
         CommandStart(c, command_type)
    \/ \E c \in Cmds : CommandResent(c)
    \/ \E c \in Cmds, reply \in CommandReplies : CommandDone(c, reply)

SpecCommand == InitCommand /\ [][NextCommand]_vars

\* ------------------------------------------------------------------------
\* Claims on SpecCommand
\* ------------------------------------------------------------------------

\* The request of command c ended with the hub dropping the connection.
Dropped(c) == cmd[c].pc = "done" /\ cmd[c].last = "disconnected"

\* C30: a command whose request ends with the hub dropping the connection
\* reports success exactly when it is the restart command, to the button
\* that sent it too; for every other command ServerDisconnectedError
\* reaches the caller.
C30_RestartDisconnectIsSuccess ==
    \A c \in Cmds : Dropped(c) =>
        IF cmd[c].type = COMMAND_RESTART
        THEN /\ cmd[c].result = CmdReturns(TRUE)
             /\ async_press(cmd[c].result).kind = "return"
        ELSE cmd[c].result = CmdRaises("ServerDisconnectedError")

\* The hub dropped the connection on a restart command and on another one.
C30_Witness ==
    /\ \E c \in Cmds : Dropped(c) /\ cmd[c].type = COMMAND_RESTART
    /\ \E c \in Cmds : Dropped(c) /\ cmd[c].type = "SetState"

\* ------------------------------------------------------------------------
\* SpecClimate: LivisiClimate.async_update_value
\* ------------------------------------------------------------------------

otherThanClimate ==
    <<connVars, loginVars, catVars, pushVars, frameVars, wireVars, availVars,
      cmdVars, fanVars>>

\* What async_get_value returns for a temperature or a humidity: the value
\* of the state, or None for a state without one.
StateValues == {"None", "19.5", "21.0"}

\* What it returns for the operation mode of a thermostat actuator.
ModeValues == {"Auto", "Manu"}

\* The exceptions async_get_state lets through.
StateExceptions == {"ErrorCodeException", "ShcUnreachableException"}

\* The fetches of lines 196-205, in the order in which they are awaited.
ClimateFetches == <<"target_temperature", "temperature", "humidity">>

\* The place of fetch name in ClimateFetches.
fetch_index(name) ==
    CHOOSE k \in 1..Len(ClimateFetches) : ClimateFetches[k] = name

\* Lines 209-216: the attributes once the three fetches have returned.
applied(attrs, got) ==
    IF got.temperature = "None" THEN
        [attrs EXCEPT !.current_temperature = "None", !.available = FALSE]
    ELSE
        [attrs EXCEPT !.target_temperature = got.target_temperature,
                      !.current_temperature = got.temperature,
                      !.current_humidity = got.humidity,
                      !.available = TRUE]

\* update_mode, lines 277-284.
update_mode(attrs, val) ==
    [attrs EXCEPT !.hvac_mode = IF val = "Auto" THEN "auto" ELSE "heat"]

\* async_update_value is called: the fetch of the target temperature is
\* sent.
ClimateUpdate ==
    /\ kpc \in {"idle", "done"}
    /\ kpc' = ClimateFetches[1]
    /\ issued' = {ClimateFetches[1]}
    /\ fetched' = NoneFetched
    /\ UNCHANGED <<climate, otherThanClimate>>

\* The fetch the call awaits returns value: the next one is sent, or, after
\* the last of the three, the attributes are set and the operation mode of
\* the first thermostat actuator is fetched when the entity has one.
ClimateFetchReturns(value) ==
    /\ kpc \in {ClimateFetches[k] : k \in 1..Len(ClimateFetches)}
    /\ fetched' = [fetched EXCEPT ![kpc] = value]
    /\ IF fetch_index(kpc) < Len(ClimateFetches) THEN
           /\ kpc' = ClimateFetches[fetch_index(kpc) + 1]
           /\ issued' = issued \cup {kpc'}
           /\ UNCHANGED climate
       ELSE
           /\ climate' = applied(climate, fetched')
           /\ IF climate.actuators > 0 THEN
                  /\ kpc' = "mode"
                  /\ issued' = issued \cup {"mode"}
              ELSE
                  /\ kpc' = "done"
                  /\ UNCHANGED issued
    /\ UNCHANGED otherThanClimate

\* The fetch the call awaits raises: the three fetches are awaited in one
\* try statement (lines 195-208), whose except clause marks the entity
\* unavailable and returns.
ClimateFetchRaises(exc) ==
    /\ kpc \in {ClimateFetches[k] : k \in 1..Len(ClimateFetches)}
    /\ climate' = [climate EXCEPT !.available = FALSE]
    /\ kpc' = "done"
    /\ UNCHANGED <<issued, fetched, otherThanClimate>>

\* Lines 218-225: the fetch of the operation mode returns or raises.
ClimateModeReturns(mode) ==
    /\ kpc = "mode"
    /\ climate' = update_mode(climate, mode)
    /\ kpc' = "done"
    /\ UNCHANGED <<issued, fetched, otherThanClimate>>

ClimateModeRaises(exc) ==
    /\ kpc = "mode"
    /\ climate' = [climate EXCEPT !.available = FALSE]
    /\ kpc' = "done"
    /\ UNCHANGED <<issued, fetched, otherThanClimate>>

\* The entity exists, with the attributes earlier updates have left.
InitClimate ==
    /\ ConnectionParked
    /\ PushParked
    /\ FramesParked
    /\ WireParked
    /\ AvailParked
    /\ CmdParked
    /\ FanParked
    /\ kpc = "idle"
    /\ issued = {}
    /\ fetched = NoneFetched
    /\ \E t, c \in StateValues, a \in BOOLEAN, n \in {0, 1} :
         climate = [target_temperature |-> t, current_temperature |-> c,
                    current_humidity |-> "None", hvac_mode |-> "heat",
                    available |-> a, actuators |-> n]

NextClimate ==
    \/ ClimateUpdate
    \/ \E value \in StateValues : ClimateFetchReturns(value)
    \/ \E exc \in StateExceptions : ClimateFetchRaises(exc)
    \/ \E mode \in ModeValues : ClimateModeReturns(mode)
    \/ \E exc \in StateExceptions : ClimateModeRaises(exc)

SpecClimate == InitClimate /\ [][NextClimate]_vars

\* C31: when async_update_value has returned, each of the three state
\* fetches of the entity has been sent, whichever of them failed.
C31_SiblingsFetched ==
    kpc = "done" =>
        {ClimateFetches[k] : k \in 1..Len(ClimateFetches)} \subseteq issued

\* ------------------------------------------------------------------------
\* SpecFan: the events the coordinator publishes for push events
\* ------------------------------------------------------------------------

otherThanFan ==
    <<connVars, loginVars, catVars, frameVars, wireVars, availVars, cmdVars,
      climVars, entry, websocket_connected, coordinator_devices, is_stopping,
      ws_websocket, disconnecting, loop, lastEnd, polls, lastFrame,
      cancelled>>

LIVISI_EVENT == "livisi_event"
LIVISI_STATE_CHANGE == "livisi_state_change"
LIVISI_REACHABILITY_CHANGE == "livisi_reachability_change"
EVENT_BUTTON_PRESSED == "button_pressed"
EVENT_MOTION_DETECTED == "motion_detected"
IS_REACHABLE == "isReachable"

STATE_PROPERTIES ==
    <<"onState", "value", "pointTemperature", "setpointTemperature",
      "temperature", "humidity", "luminance", "isOpen", "isSmokeAlarm">>

\* A device of the list a refresh returns; capabilities maps the type of a
\* capability to its id and is held as the set of its items.
FanDevice(id, unreachable, capabilities) ==
    [id |-> id, unreachable |-> unreachable, capabilities |-> capabilities]

\* The lists a refresh may return: two devices with one capability each,
\* one device with both, the first capability moved to the second device
\* with the second one gone, and no device with a capability.
FanCatalogs ==
    {<<FanDevice("d1", FALSE, {<<"PushButtonSensor", "c1">>}),
       FanDevice("d2", TRUE, {<<"MotionDetectionSensor", "c2">>})>>,
     <<FanDevice("d1", FALSE, {<<"PushButtonSensor", "c1">>,
                               <<"MotionDetectionSensor", "c2">>})>>,
     <<FanDevice("d1", FALSE, {}),
       FanDevice("d2", FALSE, {<<"PushButtonSensor", "c1">>})>>,
     <<FanDevice("d1", TRUE, {})>>}

\* dict.values() of the capabilities of a device.
capability_ids(device) == {item[2] : item \in device.capabilities}

\* coordinator.async_get_devices, lines 118-122: capability_mapping after
\* the devices from the i-th on have been entered.
RECURSIVE mapping_from(_, _, _)
mapping_from(devs, i, mapping) ==
    IF i > Len(devs) THEN mapping
    ELSE mapping_from(devs, i + 1,
             [cap_id \in DOMAIN mapping \cup capability_ids(devs[i]) |->
                 IF cap_id \in capability_ids(devs[i]) THEN devs[i].id
                 ELSE mapping[cap_id]])

capability_mapping(devs) == mapping_from(devs, 1, <<>>)

stored_mapping_merged(old, new) ==
    [cap_id \in DOMAIN old \cup DOMAIN new |->
        IF cap_id \in DOMAIN new THEN new[cap_id] ELSE old[cap_id]]

\* Line 132: _capability_to_device after a refresh built the mapping new.
stored_mapping(old, new) == new

\* dict.get(key) and dict.get(key, default), None being "None".
dict_get(dict, key, default) ==
    IF key \in DOMAIN dict THEN dict[key] ELSE default

\* _async_dispatcher_send, lines 89-97: the topic of a message.
topic(event, source, property_name) == <<event, source, property_name>>

\* _async_dispatcher_send: nothing is sent for data that is None.
dispatcher_send(event, source, data, property_name) ==
    IF data = "None" THEN <<>>
    ELSE <<[topic |-> topic(event, source, property_name), data |-> data]>>

\* publish_state, lines 99-109, for each of STATE_PROPERTIES from the i-th.
RECURSIVE publish_states_from(_, _)
publish_states_from(event_data, i) ==
    IF i > Len(STATE_PROPERTIES) THEN <<>>
    ELSE dispatcher_send(LIVISI_STATE_CHANGE, event_data.source,
                         dict_get(event_data.properties, STATE_PROPERTIES[i],
                                  "None"),
                         STATE_PROPERTIES[i])
         \o publish_states_from(event_data, i + 1)

\* The normalized event of lines 153-158 and 165.
normalized(event_data, device_id) ==
    IF event_data.type = LIVISI_EVENT_BUTTON_PRESSED THEN
        [device_id |-> device_id, type |-> EVENT_BUTTON_PRESSED,
         button_index |-> dict_get(event_data.properties, "index", "0"),
         press_type |-> dict_get(event_data.properties, "type", "ShortPress")]
    ELSE
        [device_id |-> device_id, type |-> EVENT_MOTION_DETECTED,
         button_index |-> "", press_type |-> ""]

\* on_websocket_data, lines 151-168: what is fired on the event bus.
fired(event_data, mapping) ==
    IF event_data.type \in {LIVISI_EVENT_BUTTON_PRESSED,
                            LIVISI_EVENT_MOTION_DETECTED}
       /\ dict_get(mapping, event_data.source, "None") \notin {"None", ""}
    THEN <<normalized(event_data, mapping[event_data.source])>>
    ELSE <<>>

\* on_websocket_data, lines 151-178: what is sent to the dispatcher. The
\* normalized event is a dict, never None.
dispatched_to(event_data, mapping) ==
    IF event_data.type \in {LIVISI_EVENT_BUTTON_PRESSED,
                            LIVISI_EVENT_MOTION_DETECTED}
    THEN [k \in 1..Len(fired(event_data, mapping)) |->
             [topic |-> topic(LIVISI_EVENT, event_data.source, ""),
              data |-> fired(event_data, mapping)[k]]]
    ELSE IF event_data.type = LIVISI_EVENT_STATE_CHANGED THEN
        (IF IS_REACHABLE \in DOMAIN event_data.properties
         THEN dispatcher_send(LIVISI_REACHABILITY_CHANGE, event_data.source,
                              event_data.properties[IS_REACHABLE], "")
         ELSE <<>>)
        \o publish_states_from(event_data, 1)
    ELSE <<>>

\* The events consumer_handler may hand over: the source is a bare id and
\* the properties hold a member.
PushSources == {"c1", "c2", "c9"}

PushProperties ==
    {[index |-> "2", type |-> "LongPress"], [index |-> "1"],
     [isReachable |-> "false", onState |-> "true"], [isReachable |-> "None"],
     [temperature |-> "21.0"]}

PushEvents ==
    {[type |-> type, source |-> source, properties |-> properties] :
        type \in EventTypes \cup {"ConfigChanged"}, source \in PushSources,
        properties \in PushProperties}

\* A poll cycle returns devs: coordinator.async_get_devices, lines 114-141,
\* with the channel marked connected.
FanRefresh(devs) ==
    /\ capability_to_device' =
           stored_mapping(capability_to_device, capability_mapping(devs))
    /\ catalog' = devs
    /\ pollResult' = [kind |-> "devices", exc |-> "none",
                      signals |-> success_signals(devs, recover_from_error),
                      returned |-> devs]
    /\ recover_from_error' = FALSE
    /\ lastEvent' = NoPushEvent
    /\ bus' = <<>>
    /\ topics' = <<>>
    /\ UNCHANGED <<reconnect_attempts, otherThanFan>>

\* A poll cycle fails: _async_update_data, lines 76-84.
FanRefreshFails(exc) ==
    /\ pollResult' = [kind |-> "UpdateFailed", exc |-> exc,
                      signals |-> failure_signals(coordinator_devices),
                      returned |-> <<>>]
    /\ recover_from_error' = TRUE
    /\ lastEvent' = NoPushEvent
    /\ bus' = <<>>
    /\ topics' = <<>>
    /\ UNCHANGED <<capability_to_device, catalog, reconnect_attempts,
                   otherThanFan>>

\* on_websocket_data is called with event_data.
OnWebsocketData(event_data) ==
    /\ reconnect_attempts' = 0
    /\ lastEvent' = event_data
    /\ bus' = fired(event_data, capability_to_device)
    /\ topics' = dispatched_to(event_data, capability_to_device)
    /\ UNCHANGED <<capability_to_device, catalog, recover_from_error,
                   pollResult, otherThanFan>>

\* The first refresh has returned and the channel is connected.
InitFan ==
    /\ ConnectionParked
    /\ FramesParked
    /\ WireParked
    /\ AvailParked
    /\ CmdParked
    /\ ClimParked
    /\ entry = "running"
    /\ websocket_connected = TRUE
    /\ reconnect_attempts = 0
    /\ recover_from_error = FALSE
    /\ coordinator_devices = {"d1", "d2"}
    /\ is_stopping = FALSE
    /\ ws_websocket = 0
    /\ disconnecting = FALSE
    /\ loop = [l \in Loops |-> IdleLoop]
    /\ lastEnd = NoEnd
    /\ lastFrame = "none"
    /\ cancelled = {}
    /\ polls = 0
    /\ \E devs \in FanCatalogs :
         /\ catalog = devs
         /\ capability_to_device = capability_mapping(devs)
         /\ pollResult = [kind |-> "devices", exc |-> "none",
                          signals |-> success_signals(devs, FALSE),
                          returned |-> devs]
    /\ lastEvent = NoPushEvent
    /\ bus = <<>>
    /\ topics = <<>>

NextFan ==
    \/ \E devs \in FanCatalogs : FanRefresh(devs)
    \/ \E exc \in PollExceptions : FanRefreshFails(exc)
    \/ \E event_data \in PushEvents : OnWebsocketData(event_data)

SpecFan == InitFan /\ [][NextFan]_vars

\* The devices of the last list returned that hold the capability source.
Owners(source) ==
    {catalog[i].id : i \in {j \in 1..Len(catalog) :
                              source \in capability_ids(catalog[j])}}

\* C32: a button-pressed or motion-detected event whose source is a
\* capability of the list the last successful refresh returned is fired once
\* on the event bus and sent once on the topic of the capability, as the
\* normalized event with the id of the owning device, and nothing else is
\* published; one whose source is not in that list publishes nothing.
C32_FanOut ==
    [][\A e \in PushEvents :
         (OnWebsocketData(e)
            /\ e.type \in {LIVISI_EVENT_BUTTON_PRESSED,
                           LIVISI_EVENT_MOTION_DETECTED}) =>
            IF Owners(e.source) # {} THEN
                /\ Len(bus') = 1
                /\ bus'[1].device_id \in Owners(e.source)
                /\ bus'[1].type =
                       IF e.type = LIVISI_EVENT_BUTTON_PRESSED
                       THEN EVENT_BUTTON_PRESSED ELSE EVENT_MOTION_DETECTED
                /\ Len(topics') = 1
                /\ topics'[1].topic = topic(LIVISI_EVENT, e.source, "")
                /\ topics'[1].data = bus'[1]
            ELSE
                /\ Len(bus') = 0
                /\ Len(topics') = 0]_vars

\* A button-pressed event of the capability that a refresh found on the
\* second device has been published with that device's id, after a failed
\* refresh.
C32_Witness ==
    /\ lastEvent.type = LIVISI_EVENT_BUTTON_PRESSED
    /\ lastEvent.source = "c1"
    /\ recover_from_error
    /\ Len(bus) = 1
    /\ bus[1].device_id = "d2"
    /\ bus[1].press_type = "LongPress"
    /\ Len(topics) = 1

\* ------------------------------------------------------------------------
\* Claims on Spec
\* ------------------------------------------------------------------------

\* The exceptions a failed login exchange leaves _async_refresh_token with.
LoginExceptions ==
    {async_retrieve_token(reply) : reply \in LoginReplies} \ {"ok"}

\* C1: for the requests issued while the stored token is expired, exactly
\* one login exchange (POST auth/token) is performed in total, whatever the
\* interleaving: while no login exchange has failed and every request
\* issued so far was issued on the expired token, at most one login exchange
\* has been put on the wire.
C1_SingleLogin ==
    (/\ ~loginFailed
     /\ \A r \in Req : req[r].pc # "idle" => req[r].issuedExpired)
    => logins <= 1

\* C2: a request whose first response carried errorcode 2007 calls the
\* refresh once and is sent again exactly once (unless the refresh raised);
\* when the response to the request sent again carries an errorcode, the
\* request ends with ErrorCodeException of that code, and nothing more is
\* refreshed or sent.
C2_RetryOnceAfter2007 ==
    \A r \in Req :
        LET q == req[r] IN
        q.response = TokenExpiredCode =>
            /\ q.pc \in {"lockwait", "login", "wait2", "done"}
            /\ q.refreshes = 1 + (IF q.pro THEN 1 ELSE 0)
            /\ q.relogins <= 1
            /\ q.sends <= 2
            /\ q.pc = "wait2" => q.sends = 2
            /\ (q.pc = "done" /\ q.sends < 2) =>
                   q.relogins = 1 /\ q.result.kind \in LoginExceptions
            /\ (q.pc = "done" /\ q.sends = 2 /\ q.failures = 0) =>
                   q.result = IF q.retry_response = RespOk THEN ResultOk
                              ELSE ErrorCodeException(q.retry_response)

\* C2's case: the first response was 2007, the response to the request sent
\* again carried another errorcode, and the request ended with that one.
C2_Witness ==
    \E r \in Req :
        /\ req[r].pc = "done"
        /\ req[r].response = TokenExpiredCode
        /\ req[r].retry_response = ServiceBusyCode
        /\ req[r].sends = 2
        /\ req[r].result = ErrorCodeException(ServiceBusyCode)

\* C3: every authorized request put on the wire carries a token whose
\* decoded expiry is in the future; a request that found the stored token
\* expired when it started is sent with the token its refresh stored.
C3_FreshTokenOnWire ==
    \A r \in Req :
        req[r].sends > 0 =>
            /\ ~req[r].wireExpired
            /\ req[r].pro => req[r].wireTok = req[r].refreshedTok

\* The step in which request r handles a first response carrying an
\* errorcode other than 2007.
C6_OtherCodeStep(r) ==
    /\ req[r].pc = "wait1"
    /\ req'[r].pc # "wait1"
    /\ req'[r].response \notin {RespOk, TokenExpiredCode}

\* C6: a response carrying an errorcode other than 2007 ends the request at
\* once with ErrorCodeException of that code: the request is not sent again,
\* no login exchange is made and the stored token is unchanged.
C6_OtherCodeRaisedAtOnce ==
    [][\A r \in Req :
          C6_OtherCodeStep(r) =>
              /\ req'[r].pc = "done"
              /\ req'[r].result = ErrorCodeException(req'[r].response)
              /\ req'[r].sends = req[r].sends
              /\ req'[r].refreshes = req[r].refreshes
              /\ logins' = logins
              /\ token' = token
              /\ lock' = lock]_vars

\* C6's case: a request ended by a first response with errorcode 1006.
C6_Witness ==
    \E r \in Req :
        /\ req[r].pc = "done"
        /\ req[r].response = ServiceBusyCode
        /\ req[r].sends = 1
        /\ req[r].result = ErrorCodeException(ServiceBusyCode)

C4_WrongCredentials ==
    (cpc = "raised" /\ hubReply \in {"errorcode2009", "errorcode2003"})
    => raised = "WrongCredentialException"

\* C5: a timeout or a connection failure during the login exchange leaves
\* connect() as ShcUnreachableException and an empty or unparseable body as
\* IncorrectIpAddressException, and the config flow reports cannot_connect
\* and wrong_ip_address for them (wrong_password for wrong credentials).
C5_LoginFailureKinds ==
    /\ (cpc = "raised" /\ hubReply \in {"timeout", "connect_failed"})
       => raised = "ShcUnreachableException"
    /\ (cpc = "raised"
        /\ hubReply \in {"empty_200", "empty_500", "not_json", "malformed_json"})
       => raised = "IncorrectIpAddressException"
    /\ (caller = "config_flow" /\ outcome # "none") =>
          /\ hubReply \in {"timeout", "connect_failed"}
             => outcome = "cannot_connect"
          /\ hubReply \in {"empty_200", "empty_500", "not_json",
                           "malformed_json"}
             => outcome = "wrong_ip_address"
          /\ hubReply \in {"errorcode2009", "errorcode2003"}
             => outcome = "wrong_password"

\* ------------------------------------------------------------------------
\* Claims on SpecCatalog
\* ------------------------------------------------------------------------

\* The fetches of the gather that ended with an exception.
FailedFetches == {path \in Paths : fetch[path].status = "raised"}

\* C8: async_get_devices is all-or-nothing: when any of the three
\* concurrent fetches (device, capability, location) failed, the call ends
\* with that failure (with the failure of one of them when several failed)
\* and returns no device list.
C8_AllOrNothing ==
    (gpc \in {"state", "done", "raised"} /\ FailedFetches # {}) =>
        /\ gpc = "raised"
        /\ gresult.kind = "raised"
        /\ gresult.devices = <<>>
        /\ stateFetch = "none"
        /\ gresult.exc \in {fetch[path].exc : path \in FailedFetches}

\* C8's case: only the location fetch failed, and the call raised its
\* exception although the devices and the capabilities were fetched.
C8_Witness ==
    /\ gpc = "raised"
    /\ FailedFetches = {"location"}
    /\ fetch["device"].body = <<WindowSensor, Controller>>
    /\ gresult = CatalogRaised(fetch["location"].exc)

\* C9: a failure of the controller's own state fetch never fails
\* async_get_devices: with the messages and the three fetches successful,
\* the list is returned with every device.
C9_StateFailureTolerated ==
    stateFetch = "raised" =>
        /\ gpc = "done"
        /\ gresult.kind = "devices"
        /\ Len(gresult.devices) = Len(fetch["device"].body)

\* The messages of a body whose timestamp parses, and the messages that
\* are no dict.
WithoutBadTimestamps(msgs) ==
    SelectSeq(msgs, LAMBDA m : m.isstr \/ m.timestamp = ValidTimestamp)

\* C10: a message whose timestamp is missing or unparseable is skipped: it
\* adds to none of the four sets, the other messages are still classified
\* and the call does not fail because of it.
C10_BadTimestampSkipped ==
    gpc \notin {"start", "messages"} =>
        /\ gresult.exc # "ParserError"
        /\ gpc \in {"gather", "state", "done"} =>
               msgsets = parse_messages(WithoutBadTimestamps(messages)).sets

\* C11: if the hub reports a non-active operational status during a catalog
\* refresh, async_get_devices fails as a whole and returns no device list.
C11_NonActiveStatusFails ==
    (stateFetch = "ok" /\ shc_state = "shuttingdown") =>
        /\ gpc = "raised"
        /\ gresult.kind = "raised"

\* The ids a message names: its devices entries without the "/device/"
\* prefix, or, when it has none, its source, without "/device/" too.
NamedIds(message) ==
    IF message.devices # <<>> THEN
        {removeprefix(message.devices[i], DevicePrefix) :
            i \in 1..Len(message.devices)}
    ELSE {SelectSeq(message.source, LAMBDA seg : seg # DevicePrefix)}

\* Whether a fetched message of one of the types names the device id.
NamedBy(types, id) ==
    \E j \in 1..Len(messages) :
        /\ ~messages[j].isstr
        /\ messages[j].type \in types
        /\ id \in NamedIds(messages[j])

\* C12: every device of a returned catalog has each of its four flags true
\* exactly when a fetched message of the corresponding type names its id.
C12_FlagsFromMessages ==
    gpc = "done" =>
        \A i \in 1..Len(gresult.devices) :
            LET dev == gresult.devices[i] IN
            /\ dev.battery_low <=> NamedBy({"DeviceLowBattery"}, dev.id)
            /\ dev.update_available <=>
                   NamedBy({"DeviceUpdateAvailable"}, dev.id)
            /\ dev.updated <=>
                   NamedBy({"ProductUpdated", "ShcUpdateCompleted"}, dev.id)
            /\ dev.unreachable <=> NamedBy({"DeviceUnreachable"}, dev.id)

\* A catalog was returned whose device d1 is flagged unreachable by a
\* message that names no devices, through its source, and whose controller
\* is flagged updated.
C12_Witness ==
    /\ gpc = "done"
    /\ \E i \in 1..Len(gresult.devices) :
         /\ gresult.devices[i].id = BareId("d1")
         /\ gresult.devices[i].unreachable
         /\ ~gresult.devices[i].battery_low
    /\ \E i \in 1..Len(gresult.devices) :
         /\ gresult.devices[i].id = BareId("shc")
         /\ gresult.devices[i].updated
         /\ ~gresult.devices[i].unreachable

\* ------------------------------------------------------------------------
\* Claims on SpecPush
\* ------------------------------------------------------------------------

\* C13: whenever a poll cycle fails, the signal "unreachable" has been
\* published for every id of the coordinator's known devices when the
\* failure is raised as UpdateFailed, and no device list is returned.
C13_FailedPollMarksUnreachable ==
    pollResult.kind = "UpdateFailed" =>
        /\ \A device_id \in coordinator_devices :
               <<device_id, FALSE>> \in pollResult.signals
        /\ pollResult.returned = <<>>

\* A poll cycle failed while two devices were known.
C13_Witness ==
    /\ pollResult.kind = "UpdateFailed"
    /\ Cardinality(coordinator_devices) = 2
    /\ Cardinality(pollResult.signals) = 2

\* A connection of task l ends in this step.
Ends(l) ==
    \/ ConnectFails(l)
    \/ \E how \in {"server_closed", "read_error", "disconnected"} :
         ConsumerEnds(l, how)

C16_PollRearms ==
    /\ [][(\E exc \in PollExceptions : PollFails(exc)) => loop' = loop]_vars
    /\ [][((\E devs \in Catalogs : PollSucceeds(devs))
              /\ ~websocket_connected) =>
           \E l \in Loops : loop[l].pc = "idle" /\ loop'[l].pc = "ready"]_vars
    /\ \A l \in Loops :
         []<>(loop[l].pc # "ready" \/ web_session = "none")

\* After two failures in a row stopped the tasks, a later successful poll
\* cycle created a task, which is making its first attempt.
C16_Witness ==
    /\ pollResult.kind = "devices"
    /\ polls >= 2
    /\ reconnect_attempts >= 2
    /\ \E l \in Loops : loop[l] = [pc |-> "connecting", tries |-> 1]

\* C17: a frame received on the push connection, whatever its content,
\* resets the failure counter to 0.
C17_AnyFrameResets ==
    [][(\E l \in Loops, frame \in FrameKinds : Frame(l, frame)) =>
        reconnect_attempts' = 0]_vars

C19_NoOnCloseOnDisconnect ==
    lastEnd.ended = "disconnected" => lastEnd.closes = 0

\* The tasks whose socket is open.
LiveSockets == {l \in Loops : loop[l].pc = "consuming"}

\* C20: at most one push socket is open at any time.
C20_OneLiveSocket == Cardinality(LiveSockets) <= 1

\* C27: a ws_loop task that has been cancelled makes no further connection
\* attempt: it does not run ws_loop from the top again.
C27_CancelEndsLoop ==
    [][\A l \in cancelled : ~LoopConnect(l)]_vars

\* C29: when a connection of the push channel has ended other than by
\* disconnect(), every known device has been signalled unreachable.
C29_ChannelDownSignals ==
    (lastEnd.ended \in {"failed", "read_error", "server_closed"}) =>
        \A device_id \in coordinator_devices :
            <<device_id, FALSE>> \in lastEnd.signals

\* ------------------------------------------------------------------------
\* More claims on Spec
\* ------------------------------------------------------------------------

\* C33: the request sent again after the refresh that a 2007 called carries
\* the token that was stored when that refresh ended.
C33_RetryCarriesNewToken ==
    \A r \in Req : req[r].pc = "wait2" => req[r].wireTok = req[r].refreshedTok

\* The requests whose login exchange is on the wire.
InLogin == {r \in Req : req[r].pc = "login"}

\* C34: at most one login exchange of a refresh is in flight, made by the
\* holder of the lock; a request that gets the lock after waiting and finds
\* a stored token other than the one it saw on entry makes no login.
C34_SingleFlight ==
    /\ [](Cardinality(InLogin) <= 1 /\ \A r \in InLogin : lock = r)
    /\ [][\A r \in Req :
            (LockGranted(r) /\ token # NoToken
                /\ token # req[r].expired_token) =>
                (logins' = logins /\ token' = token /\ lock' = 0)]_vars

\* Two requests have called the refresh, one of them waited for the lock,
\* and one login exchange served both.
C34_Witness ==
    /\ logins = 1
    /\ \A r \in Req : req[r].refreshes = 1 /\ req[r].refreshedTok = 1 + 1
    /\ \E r \in Req : req[r].expired_token # token

C38_NoAbsentTokenOnWire ==
    \A r \in Req :
        req[r].pc \in {"wait1", "wait2"} => bearer(req[r]) # NoToken

\* ------------------------------------------------------------------------
\* More claims on SpecCatalog
\* ------------------------------------------------------------------------

\* None of GET device, GET capability and GET location has been sent.
NoneSent == \A path \in Paths : fetch[path] = NoFetch

\* C35: in one call of async_get_devices none of the three fetches is sent
\* before GET message has returned, and none is ever sent when GET message
\* (or the parsing of its body) fails.
C35_MessagesFirst ==
    /\ [](gpc \in {"start", "messages"} => NoneSent)
    /\ [][(MessagesFail \/ (MessagesReply /\ gpc' = "raised")) =>
            (gpc' = "raised" /\ NoneSent')]_vars
    /\ [][gpc = "raised" => fetch' = fetch]_vars

\* GET message returned a body holding a message and the three fetches are
\* under way, one of them answered.
C35_Witness ==
    /\ gpc = "gather"
    /\ Len(messages) > 0
    /\ \E path \in Paths : fetch[path].status = "ok"
    /\ \E path \in Paths : fetch[path].status = "pending"

\* ------------------------------------------------------------------------
\* More claims on SpecPush
\* ------------------------------------------------------------------------

\* The ws_loop tasks that have begun to run and have not returned: they are
\* connecting, connected, or in the sleep before a reconnection.
ActiveLoops ==
    {l \in Loops : /\ loop[l].pc # "idle"
                   /\ loop[l].pc = "ready" => loop[l].tries > 0}

\* C37: at most one ws_loop task is active, through setup, poll cycles and
\* the sleep before a reconnection.
C37_OneLoop == Cardinality(ActiveLoops) <= 1

\* ------------------------------------------------------------------------
\* More claims on SpecLogin
\* ------------------------------------------------------------------------

\* C39: a connect() that an exception has left, raised by the login
\* exchange or by the fetch of the controller status, leaves no web session
\* and no controller.
C39_FailedConnectClosed ==
    cpc = "raised" => (web_session = "none" /\ controller = "none")

\* ------------------------------------------------------------------------
\* More claims on SpecAvail
\* ------------------------------------------------------------------------

\* C40: a poll cycle that succeeds after a failed one publishes a signal for
\* every device of its list, reachable exactly when the list does not
\* report it unreachable, and leaves the recovery flag cleared; one that
\* succeeds after a successful one publishes signals only for the devices
\* its list reports unreachable.
C40_RecoveryRepublishes ==
    [][\A devs \in AvailCatalogs :
         AvailPollSucceeds(devs) =>
            /\ recover_from_error' = FALSE
            /\ pollResult.kind = "UpdateFailed" =>
                 pollResult'.signals =
                     {<<d, ~unreachable_in(devs, d)>> : d \in EntityDevices}
            /\ pollResult.kind = "devices" =>
                 pollResult'.signals =
                     {<<d, FALSE>> :
                         d \in {e \in EntityDevices : unreachable_in(devs, e)}}]_vars

\* The poll cycle after a failed one has succeeded and has published the
\* signal reachable for one device and unreachable for another.
C40_Witness ==
    /\ pollResult.kind = "devices"
    /\ polls > 1
    /\ ~recover_from_error
    /\ \E d, e \in EntityDevices :
         /\ <<d, TRUE>> \in pollResult.signals
         /\ <<e, FALSE>> \in pollResult.signals
         /\ available[d] /\ ~available[e]

====
